---- MODULE Spec2Model ----
(***************************************************************************)
(* Time tracker extension: the IndexedDB activity store (TimeTrackerDB),   *)
(* its schema migration, and the popup that drives it.                     *)
(*                                                                         *)
(* Three specifications share the variables:                               *)
(*   Spec       opening the database: init(), the upgrade transaction      *)
(*   SpecDB     one caller using an open TimeTrackerDB sequentially        *)
(*   SpecPopup  the popup's handlers, interleaved at their awaits          *)
(***************************************************************************)
EXTENDS Integers, Sequences, FiniteSets, TLC

(* ---------------------------------------------------------------- bounds *)
\* Records the key generator may hand out.
MaxRecords == 2
\* Records the caller of SpecDB may add.
MaxActivities == 3
\* Records the user of the popup may add.
MaxPopupAdds == 2
\* Handlers suspended at an await at one time.
MaxTasks == 2
\* STOP_CURRENT_ACTIVITY messages in flight at one time.
MaxMsgs == 1
MaxResponses == 1
MaxFormatStart == 1
MaxFormatMinutes == 2
MaxCalls == 3
MaxServiceInits == 3
MaxDebounceTime == 6
DebounceWait == 2
\* init() calls of the instance of SpecOps.
MaxOpsInits == 2
\* Connections the options page opens and leaves open.
MaxOptionsOpens == 2
\* indexedDB.open requests issued in one behaviour.
MaxRequests == 3
\* Clock ticks.
MaxTime == 1

(* ------------------------------------------------------------- constants *)
\* `indexedDB.open('TimeTrackerDB', 1)` of the options page.
OptionsVersion == 1
\* `private readonly version = 2` of the current TimeTrackerDB.
CurrentVersion == 2
\* `private readonly version = 1` of the first TimeTrackerDB.
LegacyVersion == 1
\* Clock ticks in one calendar day.
TicksPerDay == 2

(* An optional value (a field that may be absent/undefined, a nullable     *)
(* reference): the empty set, or the singleton of the value.               *)
None == {}
Some(x) == {x}
The(o) == CHOOSE x \in o : TRUE

VARIABLES
  dbVersion,         \* persisted schema version of 'TimeTrackerDB' (0: no database)
  objectStoreNames,  \* persisted object stores
  indexNames,        \* persisted indexes of the 'activities' store
  objectStore,       \* persisted records of 'activities': id -> record
  keyGen,            \* the store's autoIncrement key generator: next key
  conns,             \* open connections held by each context
  reqs,              \* indexedDB.open requests, in the order they were made
  db,                \* each TimeTrackerDB instance's `db` field
  now,               \* the clock new Date() reads
  lastOp,            \* the last store operation a caller issued, and its outcome
  preStore,          \* objectStore as it was when lastOp was issued
  session,           \* what the sequential caller of SpecDB has done so far
  currentActivity,   \* TimeTrackerPopup.currentActivity
  activities,        \* TimeTrackerPopup.activities, the list on display
  editingActivityId, \* TimeTrackerPopup.editingActivityId
  modalOpen,         \* the edit modal carries the class 'active'
  trackBtnDisabled,  \* trackBtn.disabled
  tasks,             \* handlers suspended at an await, oldest request first
  msgs,              \* STOP_CURRENT_ACTIVITY messages on their way to the background
  selectedDate,      \* TimeTrackerPopup.selectedDate, as a local calendar day
  selectedTags,      \* TimeTrackerPopup.selectedTags
  allTags,           \* TimeTrackerPopup.allTags
  analyticsTimeRange, \* OptionsPage.analyticsTimeRange, in days (0: all time)
  utcOffset,         \* local time minus UTC, in ticks of the clock
  responses,         \* what the background's onMessage listener has passed to sendResponse
  updateInterval,    \* BackgroundService.updateInterval: a timer handle, if any
  intervals,         \* the setInterval timers of the background that are active
  timeout,           \* the `timeout` of a debounced function: its pending timer, if any
  log                \* calls of the debounced function and invocations of `func`, in order

persistVars == <<dbVersion, objectStoreNames, indexNames, objectStore, keyGen>>
\* The variables of the callers above the store.
filterVars == <<selectedDate, selectedTags, allTags>>
optionsVars == <<analyticsTimeRange, utcOffset>>
serviceVars == <<responses, updateInterval, intervals>>
debounceVars == <<timeout, log>>
popupVars == <<currentActivity, activities, editingActivityId, modalOpen,
               trackBtnDisabled, tasks, msgs, filterVars, optionsVars,
               serviceVars, debounceVars>>
aboveVars == <<session, popupVars>>
vars == <<dbVersion, objectStoreNames, indexNames, objectStore, keyGen,
          conns, reqs, db, now, lastOp, preStore, aboveVars>>

(* -------------------------------------------------------------- records *)
Instances == {"background", "popup", "legacy", "options"}
Names == {"a", "b"}
Tags == {"work"}

\* TimeTrackerDB.version of the build an instance belongs to.
Version(i) == IF i = "legacy" THEN LegacyVersion ELSE CurrentVersion

\* (year, month, day) of a timestamp, as one day number.
DateOf(t) == t \div TicksPerDay

\* interface Activity: description/tags/end are optional.
Activity(name, start, end, tags) ==
  [activity |-> name, start |-> start, end |-> end, tags |-> tags,
   date |-> DateOf(start)]

\* `!activity.end`
LacksEnd(a) == a.end = None
\* `!activity.tags` (an empty array is truthy)
LacksTags(a) == a.tags = None

RECURSIVE SortedKeys(_)
\* The keys of a key set in ascending order: the order getAll() and a cursor use.
SortedKeys(S) ==
  IF S = {} THEN <<>>
  ELSE LET k == CHOOSE x \in S : \A y \in S : x <= y
       IN <<k>> \o SortedKeys(S \ {k})

\* store.getAll(): every record, ascending by key.
GetAll(store) ==
  LET ks == SortedKeys(DOMAIN store)
  IN [n \in 1..Len(ks) |-> store[ks[n]]]

RECURSIVE FindLacksEnd(_, _)
\* activities.find(activity => !activity.end) from position n: the first such
\* element, or None (undefined).
FindLacksEnd(seq, n) ==
  IF n > Len(seq) THEN None
  ELSE IF LacksEnd(seq[n]) THEN Some(seq[n])
  ELSE FindLacksEnd(seq, n + 1)

\* Mutant: the spread is written the other way round, { ...updates, ...activity }.
MergeStoredWins(activity, updates) ==
  [f \in DOMAIN activity \cup DOMAIN updates |->
     IF f \in DOMAIN activity THEN activity[f] ELSE updates[f]]

\* { ...activity, ...updates }
Merge(activity, updates) ==
  [f \in DOMAIN activity \cup DOMAIN updates |->
     IF f \in DOMAIN updates THEN updates[f] ELSE activity[f]]

\* An empty 'activities' store.
EmptyStore == [k \in {} |-> 0]

\* store.put(record) under keyPath 'id'
Put(store, record) ==
  [k \in DOMAIN store \cup {record.id} |->
     IF k = record.id THEN record ELSE store[k]]

(* ------------------------------------------------------------- requests *)
Unsettled == {"queued", "upgrading", "cursor", "txdone", "opened", "failed"}
InUpgrade == {"upgrading", "cursor", "txdone"}

Snapshot ==
  [version |-> dbVersion, stores |-> objectStoreNames, indexes |-> indexNames,
   store |-> objectStore, keyGen |-> keyGen]

\* An init() of instance i has been called and has not settled.
InitPending(i) ==
  \E k \in 1..Len(reqs) : reqs[k].inst = i /\ reqs[k].phase \in Unsettled

UpgradeRunning ==
  \E k \in 1..Len(reqs) : reqs[k].phase \in InUpgrade

\* init() calls of instance i that have resolved.
InitsResolved(i) ==
  Cardinality({k \in 1..Len(reqs) : reqs[k].inst = i /\ reqs[k].phase = "resolved"})

\* The caller has issued nothing yet.
NoSession == [ok |-> TRUE, last |-> "none", started |-> None, created |-> <<>>]

\* No popup document is loaded.
\* `selectedDate: Date = new Date()`: the day the popup was opened on.
SelectedDate == DateOf(0)

\* `analyticsTimeRange: number = 30`
DefaultTimeRange == 30

NoPopup ==
  /\ currentActivity = None
  /\ activities = <<>>
  /\ editingActivityId = None
  /\ modalOpen = FALSE
  /\ trackBtnDisabled = FALSE
  /\ tasks = <<>>
  /\ msgs = 0
  /\ selectedDate = SelectedDate
  /\ selectedTags = {}
  /\ allTags = {}
  /\ analyticsTimeRange = DefaultTimeRange
  /\ utcOffset = 0
  /\ responses = <<>>
  /\ updateInterval = None
  /\ intervals = {}
  /\ timeout = None
  /\ log = <<>>

\* An updates object naming no field.
NoPatch == [f \in {} |-> 0]

NoOp == [inst |-> "none", op |-> "none", arg |-> 0, patch |-> NoPatch, outcome |-> "none", result |-> None,
         pending |-> FALSE, inits |-> 0, upgrading |-> FALSE]

Init ==
  /\ dbVersion = 0
  /\ objectStoreNames = {}
  /\ indexNames = {}
  /\ objectStore = EmptyStore
  /\ keyGen = 1
  /\ conns = [i \in Instances |-> 0]
  /\ reqs = <<>>
  /\ db = [i \in Instances |-> None]
  /\ now = 0
  /\ lastOp = NoOp
  /\ preStore = EmptyStore
  /\ session = NoSession
  /\ NoPopup

(* ------------------------------------------------- opening the database *)
\* Requests to one database are processed in the order they were made.
IsHead(k) ==
  \A j \in 1..(k - 1) : reqs[j].phase \notin ({"queued"} \cup InUpgrade)

SetReq(k, r) == [reqs EXCEPT ![k] = r]

\* init() as far as its call of indexedDB.open(this.dbName, this.version).
NewRequest(i) ==
  /\ Len(reqs) < MaxRequests
  /\ reqs' = Append(reqs,
       [inst |-> i, ver |-> Version(i), phase |-> "queued", old |-> 0,
        steps |-> <<>>, cursor |-> 0, upgraded |-> FALSE, aborted |-> FALSE,
        saved |-> Snapshot, wasOpen |-> db[i] # None])
  /\ UNCHANGED <<persistVars, conns, now, lastOp, preStore, aboveVars>>

\* Mutant: init() drops the connection it holds before it opens the next.
InitCallResets(i) ==
  /\ NewRequest(i)
  /\ db' = [db EXCEPT ![i] = None]

\* init(): `this.db` keeps its value until onsuccess.
InitCall(i) ==
  /\ NewRequest(i)
  /\ UNCHANGED db

\* The platform takes up request k: a newer persisted version fails it with a
\* VersionError; an equal one opens a connection; an older one starts the
\* versionchange transaction, once every other connection is closed.
Process(k, tooNew) ==
  LET r == reqs[k] IN
  /\ r.phase = "queued"
  /\ IsHead(k)
  /\ IF tooNew
       THEN /\ reqs' = SetReq(k, [r EXCEPT !.phase = "failed", !.old = dbVersion,
                                           !.saved = Snapshot])
            /\ UNCHANGED <<persistVars, conns>>
     ELSE IF ~(dbVersion < r.ver)
       THEN /\ reqs' = SetReq(k, [r EXCEPT !.phase = "opened", !.old = dbVersion,
                                           !.saved = Snapshot])
            /\ conns' = [conns EXCEPT ![r.inst] = @ + 1]
            /\ UNCHANGED persistVars
     ELSE /\ \A j \in Instances : conns[j] = 0
          /\ reqs' = SetReq(k, [r EXCEPT !.phase = "upgrading", !.old = dbVersion,
                                         !.saved = Snapshot, !.upgraded = TRUE])
          /\ dbVersion' = r.ver
          /\ conns' = [conns EXCEPT ![r.inst] = @ + 1]
          /\ UNCHANGED <<objectStoreNames, indexNames, objectStore, keyGen>>
  /\ UNCHANGED <<db, now, lastOp, preStore, aboveVars>>

\* Mutant: indexedDB.open(this.dbName) without a version opens whatever is there.
OpenProcessAnyVersion(k) == Process(k, FALSE)

\* indexedDB.open(this.dbName, this.version)
OpenProcess(k) == Process(k, dbVersion > reqs[k].ver)

\* Mutant: an else-if chain runs only the first step that applies.
MigrationStepsFirstOnly(oldVersion) ==
  IF oldVersion < 1 THEN <<1>> ELSE IF oldVersion < 2 THEN <<2>> ELSE <<>>

\* The migration steps the current build's onupgradeneeded runs from oldVersion.
MigrationSteps(oldVersion) ==
  (IF oldVersion < 1 THEN <<1>> ELSE <<>>) \o (IF oldVersion < 2 THEN <<2>> ELSE <<>>)

\* The body of request.onupgradeneeded of the current build (version 2).
UpgradeHandler(k) ==
  LET r == reqs[k]
      steps == MigrationSteps(r.old)
      has(n) == \E m \in 1..Len(steps) : steps[m] = n
  IN
  /\ r.phase = "upgrading"
  /\ r.ver = CurrentVersion
  /\ objectStoreNames' = IF has(1) THEN objectStoreNames \cup {"activities"}
                         ELSE objectStoreNames
  /\ objectStore' = IF has(1) THEN EmptyStore ELSE objectStore
  /\ keyGen' = IF has(1) THEN 1 ELSE keyGen
  /\ indexNames' = (IF has(1) THEN {"date", "activity", "start"} ELSE indexNames)
                     \cup (IF has(2) THEN {"tags"} ELSE {})
  /\ reqs' = SetReq(k, [r EXCEPT !.steps = steps,
                                 !.phase = IF has(2) THEN "cursor" ELSE "txdone"])
  /\ UNCHANGED <<dbVersion, conns, now, lastOp, preStore, aboveVars>>

\* Mutant: the handler keeps the connection under upgrade in `this.db`.
OnUpgradeNeededSetsDb(k) ==
  /\ UpgradeHandler(k)
  /\ db' = [db EXCEPT ![reqs[k].inst] = Some(reqs[k].ver)]

\* request.onupgradeneeded of the current build: `this.db` is not touched.
OnUpgradeNeeded(k) ==
  /\ UpgradeHandler(k)
  /\ UNCHANGED db

\* request.onupgradeneeded of the first build (version 1).
LegacyOnUpgradeNeeded(k) ==
  LET r == reqs[k]
      create == "activities" \notin objectStoreNames
  IN
  /\ r.phase = "upgrading"
  /\ r.ver = LegacyVersion
  /\ objectStoreNames' = objectStoreNames \cup {"activities"}
  /\ objectStore' = IF create THEN EmptyStore ELSE objectStore
  /\ keyGen' = IF create THEN 1 ELSE keyGen
  /\ indexNames' = IF create THEN {"date", "activity", "start"} ELSE indexNames
  /\ reqs' = SetReq(k, [r EXCEPT !.steps = IF create THEN <<1>> ELSE <<>>,
                                 !.phase = "txdone"])
  /\ UNCHANGED <<dbVersion, conns, db, now, lastOp, preStore, aboveVars>>

\* Mutant: the callback walks the records and writes none back.
BackfillForgets(activity) == activity

\* The cursor callback's body: `if (!activity.tags) { activity.tags = []; ... }`
Backfill(activity) ==
  IF LacksTags(activity) THEN [activity EXCEPT !.tags = Some({})] ELSE activity

\* store.openCursor().onsuccess: one record per call, ascending by key; a null
\* cursor ends the walk.
CursorStep(k) ==
  LET r == reqs[k]
      rest == {id \in DOMAIN objectStore : id > r.cursor}
  IN
  /\ r.phase = "cursor"
  /\ IF rest = {}
       THEN /\ reqs' = SetReq(k, [r EXCEPT !.phase = "txdone"])
            /\ UNCHANGED objectStore
       ELSE LET id == CHOOSE x \in rest : \A y \in rest : x <= y IN
            /\ objectStore' = Put(objectStore, Backfill(objectStore[id]))
            /\ reqs' = SetReq(k, [r EXCEPT !.cursor = id])
  /\ UNCHANGED <<dbVersion, objectStoreNames, indexNames, keyGen,
                 conns, db, now, lastOp, preStore, aboveVars>>

\* A step of the upgrade fails (a request error nobody handles, an exception in
\* a handler): the versionchange transaction aborts, the platform puts back
\* what it changed, closes the connection and fails the open request.
AbortUpgrade(k) ==
  LET r == reqs[k] IN
  /\ r.phase \in InUpgrade
  /\ dbVersion' = r.saved.version
  /\ objectStoreNames' = r.saved.stores
  /\ indexNames' = r.saved.indexes
  /\ objectStore' = r.saved.store
  /\ keyGen' = r.saved.keyGen
  /\ conns' = [conns EXCEPT ![r.inst] = @ - 1]
  /\ reqs' = SetReq(k, [r EXCEPT !.phase = "failed", !.aborted = TRUE])
  /\ UNCHANGED <<db, now, lastOp, preStore, aboveVars>>

\* The versionchange transaction commits.
CommitUpgrade(k) ==
  LET r == reqs[k] IN
  /\ r.phase = "txdone"
  /\ reqs' = SetReq(k, [r EXCEPT !.phase = "opened"])
  /\ UNCHANGED <<persistVars, conns, db, now, lastOp, preStore, aboveVars>>

\* request.onsuccess: `this.db = request.result; resolve()`
OnSuccess(k) ==
  LET r == reqs[k] IN
  /\ r.phase = "opened"
  /\ db' = [db EXCEPT ![r.inst] = Some(r.ver)]
  /\ reqs' = SetReq(k, [r EXCEPT !.phase = "resolved"])
  /\ UNCHANGED <<persistVars, conns, now, lastOp, preStore, aboveVars>>

\* Mutant: onerror settles the promise the way onsuccess does.
OnErrorResolves(k) ==
  LET r == reqs[k] IN
  /\ r.phase = "failed"
  /\ db' = [db EXCEPT ![r.inst] = Some(r.ver)]
  /\ reqs' = SetReq(k, [r EXCEPT !.phase = "resolved"])
  /\ UNCHANGED <<persistVars, conns, now, lastOp, preStore, aboveVars>>

\* request.onerror: `reject(request.error)`
OnError(k) ==
  LET r == reqs[k] IN
  /\ r.phase = "failed"
  /\ UNCHANGED db
  /\ reqs' = SetReq(k, [r EXCEPT !.phase = "rejected"])
  /\ UNCHANGED <<persistVars, conns, now, lastOp, preStore, aboveVars>>

\* The page or worker that holds instance i goes away: its connections close,
\* its requests are never answered and its instance is gone with it.
CloseContext(i) ==
  /\ conns[i] > 0
  /\ \A k \in 1..Len(reqs) : reqs[k].inst = i => reqs[k].phase \notin InUpgrade
  /\ conns' = [conns EXCEPT ![i] = 0]
  /\ db' = [db EXCEPT ![i] = None]
  /\ reqs' = [k \in 1..Len(reqs) |->
                IF reqs[k].inst = i THEN [reqs[k] EXCEPT !.phase = "gone"]
                ELSE reqs[k]]
  /\ UNCHANGED <<persistVars, now, lastOp, preStore, aboveVars>>

(* ----------------------------------------------------- store operations *)
\* What a caller sees of an operation called with id `arg` (0: none): how
\* it settled and with what, and how the instance stood when it was called.
\* `patch` is the updates object of an updateActivity call.
ObserveCall(i, op, arg, patch, outcome, result) ==
  /\ lastOp' = [inst |-> i, op |-> op, arg |-> arg, patch |-> patch,
                outcome |-> outcome, result |-> result,
                pending |-> InitPending(i), inits |-> InitsResolved(i),
                upgrading |-> UpgradeRunning]
  /\ preStore' = objectStore

ObserveAt(i, op, arg, outcome, result) ==
  ObserveCall(i, op, arg, NoPatch, outcome, result)

Observe(i, op, outcome, result) == ObserveAt(i, op, 0, outcome, result)

RECURSIVE FindLastLacksEnd(_, _)
\* The last element lacking `end`, from position n down.
FindLastLacksEnd(seq, n) ==
  IF n < 1 THEN None
  ELSE IF LacksEnd(seq[n]) THEN Some(seq[n])
  ELSE FindLastLacksEnd(seq, n - 1)

\* Mutant: the search runs from the newest record to the oldest.
CurrentOfNewest(store) == FindLastLacksEnd(GetAll(store), Cardinality(DOMAIN store))

\* getCurrentActivity()'s result on the records of the store.
CurrentOf(store) == FindLacksEnd(GetAll(store), 1)

\* addActivity(activity): store.add under the generated key.
AddActivity(i, a) ==
  /\ IF db[i] = None
       THEN /\ Observe(i, "add", "notInitialized", None)
            /\ UNCHANGED <<objectStore, keyGen>>
       ELSE LET record == Merge(a, [id |-> keyGen]) IN
            /\ objectStore' = Put(objectStore, record)
            /\ keyGen' = keyGen + 1
            /\ Observe(i, "add", "ok", Some(record))
  /\ UNCHANGED <<dbVersion, objectStoreNames, indexNames, conns, reqs, db, now>>

\* getCurrentActivity()
GetCurrentActivity(i) ==
  /\ IF db[i] = None
       THEN Observe(i, "getCurrent", "notInitialized", None)
       ELSE Observe(i, "getCurrent", "ok", CurrentOf(objectStore))
  /\ UNCHANGED <<persistVars, conns, reqs, db, now>>

\* updateActivity's transaction on a stored id: get, merge, put.
Updated(store, id, updates) == Put(store, Merge(store[id], updates))

\* The key generator after a record is stored under an explicit key: a key
\* at or above the generator's number moves the generator past it.
NextKey(gen, key) == IF key >= gen THEN key + 1 ELSE gen

\* Mutant: an id that is not stored is written as a new record.
UpdateActivityUpserts(i, id, updates) ==
  /\ objectStore' =
       Put(objectStore, Merge(Merge(Activity("a", now, None, None), updates), [id |-> id]))
  /\ ObserveCall(i, "update", id, updates, "ok", None)
  /\ UNCHANGED <<dbVersion, objectStoreNames, indexNames, keyGen, conns, reqs, db, now>>

\* updateActivity(id, updates)
UpdateActivity(i, id, updates) ==
  /\ IF db[i] = None
       THEN /\ ObserveCall(i, "update", id, updates, "notInitialized", None)
            /\ UNCHANGED <<objectStore, keyGen>>
     ELSE IF id \notin DOMAIN objectStore
       THEN /\ ObserveCall(i, "update", id, updates, "notFound", None)
            /\ UNCHANGED <<objectStore, keyGen>>
     ELSE /\ objectStore' = Updated(objectStore, id, updates)
          /\ keyGen' = NextKey(keyGen, Merge(objectStore[id], updates).id)
          /\ ObserveCall(i, "update", id, updates, "ok", Some(Merge(objectStore[id], updates)))
  /\ UNCHANGED <<dbVersion, objectStoreNames, indexNames, conns, reqs, db, now>>

\* Mutant: the delete takes every record up to the id.
DeletedUpTo(store, id) == [k \in {j \in DOMAIN store : j > id} |-> store[k]]

\* store.delete(id)
Deleted(store, id) == [k \in DOMAIN store \ {id} |-> store[k]]

\* Mutant: deleteActivity without the `!this.db` guard.
DeleteActivityUnguarded(i, id) ==
  /\ objectStore' = Deleted(objectStore, id)
  /\ ObserveAt(i, "delete", id, "ok", None)
  /\ UNCHANGED <<dbVersion, objectStoreNames, indexNames, keyGen, conns, reqs, db, now>>

\* deleteActivity(id): store.delete succeeds whether or not the key exists.
DeleteActivity(i, id) ==
  /\ IF db[i] = None
       THEN /\ ObserveAt(i, "delete", id, "notInitialized", None)
            /\ UNCHANGED objectStore
       ELSE /\ objectStore' = Deleted(objectStore, id)
            /\ ObserveAt(i, "delete", id, "ok", None)
  /\ UNCHANGED <<dbVersion, objectStoreNames, indexNames, keyGen, conns, reqs, db, now>>

\* Mutant: the guard tests the end of the record found instead of its id.
StoppedTestsEnd(store, t) ==
  LET cur == CurrentOf(store) IN
  IF cur # None /\ The(cur).end # None
    THEN Updated(store, The(cur).id, [end |-> Some(t)])
    ELSE store

\* stopCurrentActivity() run to its end with nothing in between: the store it
\* leaves. `currentActivity && currentActivity.id` guards the update.
Stopped(store, t) ==
  LET cur == CurrentOf(store) IN
  IF cur # None /\ The(cur).id # 0
    THEN Updated(store, The(cur).id, [end |-> Some(t)])
    ELSE store

\* stopCurrentActivity(), awaited by a caller that does nothing meanwhile.
StopCurrentActivity(i) ==
  /\ IF db[i] = None
       THEN /\ Observe(i, "stop", "notInitialized", None)
            /\ UNCHANGED objectStore
       ELSE /\ objectStore' = Stopped(objectStore, now)
            /\ Observe(i, "stop", "ok", CurrentOf(objectStore))
  /\ UNCHANGED <<dbVersion, objectStoreNames, indexNames, keyGen, conns, reqs, db, now>>

\* Mutant: the records of the day as the index returns them, unsorted.
ByDateInKeyOrder(store, date) ==
  SelectSeq(GetAll(store), LAMBDA a : a.date = date)

\* getActivitiesByDate(date): the records of the day, ascending by start
\* (records of one start in the order of their ids).
ByDate(store, date) ==
  SortSeq(SelectSeq(GetAll(store), LAMBDA a : a.date = date),
          LAMBDA a, b : a.start < b.start \/ (a.start = b.start /\ a.id < b.id))

\* getActivitiesByDate(date)
GetActivitiesByDate(i, date) ==
  /\ IF db[i] = None
       THEN ObserveAt(i, "byDate", date, "notInitialized", None)
       ELSE ObserveAt(i, "byDate", date, "ok", Some(ByDate(objectStore, date)))
  /\ UNCHANGED <<persistVars, conns, reqs, db, now>>

\* Mutant: one of the tags is enough.
HasSomeTag(a, tags) == tags = {} \/ (a.tags # None /\ tags \cap The(a.tags) # {})

\* `tags.every(tag => activity.tags && activity.tags.includes(tag))`
HasTags(a, tags) == tags = {} \/ (a.tags # None /\ tags \subseteq The(a.tags))

\* getActivitiesByDateAndTags(date, tags): the records that start on the day
\* and carry every tag, ascending by start.
ByDateAndTags(store, date, tags) ==
  SortSeq(SelectSeq(GetAll(store),
                    LAMBDA a : DateOf(a.start) = date /\ HasTags(a, tags)),
          LAMBDA a, b : a.start < b.start \/ (a.start = b.start /\ a.id < b.id))

\* getActivitiesByDateAndTags(date, tags)
GetActivitiesByDateAndTags(i, date, tags) ==
  /\ IF db[i] = None
       THEN ObserveCall(i, "byDateAndTags", date, [tags |-> tags], "notInitialized", None)
       ELSE ObserveCall(i, "byDateAndTags", date, [tags |-> tags], "ok",
                        Some(ByDateAndTags(objectStore, date, tags)))
  /\ UNCHANGED <<persistVars, conns, reqs, db, now>>

\* getAllTags(): the tags of all records, as a set.
AllTags(store) ==
  UNION {The(store[id].tags) : id \in {k \in DOMAIN store : store[k].tags # None}}

\* getAllTags()
GetAllTags(i) ==
  /\ IF db[i] = None
       THEN Observe(i, "allTags", "notInitialized", None)
       ELSE Observe(i, "allTags", "ok", Some(AllTags(objectStore)))
  /\ UNCHANGED <<persistVars, conns, reqs, db, now>>

\* The records a caller of build i passes to addActivity: the first build's
\* Activity has no tags.
Inputs(i) ==
  {Activity(n, now, e, t) :
     n \in {"a"}, e \in {None, Some(now)},
     t \in IF i = "legacy" THEN {None} ELSE {None, Some({}), Some(Tags)}}

Tick ==
  /\ now < MaxTime
  /\ now' = now + 1
  /\ UNCHANGED <<persistVars, conns, reqs, db, lastOp, preStore, aboveVars>>

\* The contexts that open the database in Spec.
Openers == {"background", "legacy"}

Next ==
  \/ \E i \in Openers : InitCall(i)
  \/ \E k \in 1..Len(reqs) : OpenProcess(k)
  \/ \E k \in 1..Len(reqs) : OnUpgradeNeeded(k)
  \/ \E k \in 1..Len(reqs) : LegacyOnUpgradeNeeded(k)
  \/ \E k \in 1..Len(reqs) : CursorStep(k)
  \/ \E k \in 1..Len(reqs) : AbortUpgrade(k)
  \/ \E k \in 1..Len(reqs) : CommitUpgrade(k)
  \/ \E k \in 1..Len(reqs) : OnSuccess(k)
  \/ \E k \in 1..Len(reqs) : OnError(k)
  \/ \E i \in Openers : CloseContext(i)
  \/ \E i \in Openers : \E a \in Inputs(i) :
       keyGen <= MaxRecords /\ AddActivity(i, a) /\ UNCHANGED aboveVars
  \/ \E i \in Openers : GetCurrentActivity(i) /\ UNCHANGED aboveVars

Spec == Init /\ [][Next]_vars

(* ------------------------------------------------ claims on opening, Spec *)
\* Every record of `before` is in `after` with a tags field: the empty list
\* where it had none, its own otherwise; every other field as it was.
Backfilled(before, after) ==
  \A id \in DOMAIN before :
    /\ id \in DOMAIN after
    /\ DOMAIN after[id] = DOMAIN before[id]
    /\ after[id].tags # None
    /\ after[id].tags = IF before[id].tags = None THEN Some({}) ELSE before[id].tags
    /\ \A f \in DOMAIN before[id] \ {"tags"} : after[id][f] = before[id][f]

UpgradedFromV1(r) ==
  r.ver = CurrentVersion /\ r.upgraded /\ r.old = LegacyVersion /\ r.phase = "opened"

\* C5: when init() succeeds on a store persisted at schema version 1 (the open
\* has succeeded and onsuccess is about to resolve the promise), every record
\* that was there before has a tags field, the empty list where it had none,
\* and every other field of every such record is unchanged.
C5_MigrationBackfillsTags ==
  \A k \in 1..Len(reqs) :
    UpgradedFromV1(reqs[k]) => Backfilled(reqs[k].saved.store, objectStore)

\* C5 witness: a version-1 store that held a record without tags has been
\* upgraded by init().
C5_Witness ==
  \E k \in 1..Len(reqs) :
    /\ UpgradedFromV1(reqs[k])
    /\ \E id \in DOMAIN reqs[k].saved.store :
         /\ reqs[k].saved.store[id].tags = None
         /\ reqs[k].saved.store[id].end # None
         /\ objectStore[id].tags = Some({})

\* The steps v+1 .. 2 in ascending order.
StepsAfter(v) == [n \in 1..(CurrentVersion - v) |-> v + n]

C6_StepsRun ==
  \A k \in 1..Len(reqs) :
    (reqs[k].ver = CurrentVersion
       /\ reqs[k].phase \in {"cursor", "txdone", "opened", "resolved"})
    => /\ reqs[k].old \in 0..CurrentVersion
       /\ reqs[k].steps = StepsAfter(reqs[k].old)
       /\ reqs[k].upgraded = (reqs[k].old < CurrentVersion)
       /\ {"date", "activity", "start", "tags"} \subseteq indexNames
       /\ "activities" \in objectStoreNames

C6_NoStepAtCurrent ==
  \A k \in 1..Len(reqs) :
    (reqs[k].phase = "queued" /\ reqs[k].ver = CurrentVersion
       /\ dbVersion = CurrentVersion /\ reqs'[k].phase \notin {"queued", "gone"})
    => /\ reqs'[k].phase = "opened"
       /\ reqs'[k].steps = <<>>
       /\ persistVars' = persistVars

\* C6: for a persisted version v in 0..2, init() of the current build runs the
\* migration steps v+1..2, each once and in ascending order, in the one upgrade
\* transaction of its open request; at version 2 it runs no step and changes
\* no record.
C6_MigrationStepsAscending ==
  []C6_StepsRun /\ [][C6_NoStepAtCurrent]_vars

\* C6 witness: one init() has run both steps from version 0, and a later one
\* found nothing to run.
C6_Witness ==
  \E k, m \in 1..Len(reqs) :
    /\ reqs[k].ver = CurrentVersion /\ reqs[k].old = 0
    /\ reqs[k].steps = <<1, 2>> /\ reqs[k].phase = "resolved"
    /\ reqs[m].ver = CurrentVersion /\ reqs[m].old = CurrentVersion
    /\ reqs[m].steps = <<>> /\ reqs[m].phase = "resolved"
    /\ objectStore # EmptyStore

C7_AbortStep ==
  \A k \in 1..Len(reqs) :
    (reqs[k].phase \in InUpgrade /\ reqs'[k].phase \notin (InUpgrade \cup {"opened"}))
    => /\ reqs'[k].phase = "failed"
       /\ Snapshot' = reqs[k].saved
       /\ db[reqs[k].inst] = None
       /\ db' = db

C7_RejectStep ==
  \A k \in 1..Len(reqs) :
    (reqs[k].aborted /\ reqs[k].phase = "failed" /\ reqs'[k].phase # "failed")
    => /\ reqs'[k].phase \in {"rejected", "gone"}
       /\ reqs'[k].phase = "rejected" => db' = db
       /\ persistVars' = persistVars

\* C7: when a migration step fails during init(), the persisted version, the
\* stores and indexes and every record are put back as they were when the open
\* began, init() rejects, and neither the failure nor the rejection opens the
\* instance.
C7_FailedMigrationLeavesStore ==
  [][C7_AbortStep /\ C7_RejectStep]_vars

\* C7 witness: an upgrade from version 1 failed after it had backfilled a
\* record; init() rejected and the store is as it was.
C7_Witness ==
  \E k \in 1..Len(reqs) :
    /\ reqs[k].aborted /\ reqs[k].phase = "rejected"
    /\ reqs[k].old = LegacyVersion /\ reqs[k].cursor > 0
    /\ dbVersion = LegacyVersion
    /\ objectStore = reqs[k].saved.store
    /\ \E id \in DOMAIN objectStore : objectStore[id].tags = None
    /\ db[reqs[k].inst] = None

C8_ProcessStep ==
  \A k \in 1..Len(reqs) :
    (reqs[k].phase = "queued" /\ dbVersion > reqs[k].ver
       /\ reqs'[k].phase \notin {"queued", "gone"})
    => /\ reqs'[k].phase = "failed"
       /\ persistVars' = persistVars
       /\ conns' = conns
       /\ db' = db

C8_ErrorStep ==
  \A k \in 1..Len(reqs) :
    (~reqs[k].aborted /\ reqs[k].phase = "failed" /\ reqs'[k].phase # "failed")
    => /\ reqs'[k].phase \in {"rejected", "gone"}
       /\ reqs'[k].phase = "rejected" => db' = db
       /\ persistVars' = persistVars

\* C8: an open with a version older than the persisted one fails, the error
\* reaches the caller of init() as a rejection, and the version and the
\* records stay as they are.
C8_NewerVersionRejected ==
  [][C8_ProcessStep /\ C8_ErrorStep]_vars

\* C8 witness: the first build's init() was rejected on a version-2 store that
\* holds records.
C8_Witness ==
  \E k \in 1..Len(reqs) :
    /\ reqs[k].inst = "legacy" /\ reqs[k].phase = "rejected"
    /\ ~reqs[k].aborted /\ reqs[k].old = CurrentVersion
    /\ dbVersion = CurrentVersion
    /\ objectStore # EmptyStore

\* C9 as claimed: an operation issued while an init() of its instance is
\* pending is rejected as not initialized.
C9_RejectedWhileAnyInitPending ==
  lastOp.pending => lastOp.outcome = "notInitialized"

C9_GateState ==
  /\ (lastOp.op # "none" /\ lastOp.inits = 0) => lastOp.outcome = "notInitialized"
  /\ lastOp.outcome = "notInitialized" => lastOp.result = None
  /\ lastOp.outcome = "ok" => ~lastOp.upgrading

C9_GateStep ==
  (lastOp' # lastOp /\ lastOp'.outcome = "notInitialized")
    => persistVars' = persistVars

\* C9 amended: until an init() of the instance has resolved, every operation
\* of that instance is rejected as not initialized and leaves the store alone,
\* and no operation is let through while a schema upgrade is running.
C9_RejectedUntilFirstInitResolves ==
  []C9_GateState /\ [][C9_GateStep]_vars

\* C9 witness: an operation issued during the upgrade its own init() runs was
\* rejected.
C9_Witness ==
  /\ lastOp.op = "add" /\ lastOp.pending /\ lastOp.upgrading
  /\ lastOp.outcome = "notInitialized"

C10_ReopenState ==
  \A k \in 1..Len(reqs) :
    (reqs[k].wasOpen /\ reqs[k].phase # "gone")
    => /\ reqs[k].phase \in {"queued", "opened", "resolved"}
       /\ ~reqs[k].upgraded
       /\ db[reqs[k].inst] # None

C10_ReopenStep ==
  \A k \in 1..Len(reqs) :
    (reqs[k].wasOpen /\ reqs'[k].phase # reqs[k].phase)
    => persistVars' = persistVars

\* C10: init() on an instance that is already open never fails, runs no
\* upgrade, leaves the schema version and every record unchanged, and the
\* instance stays open for operations throughout.
C10_InitIdempotent ==
  []C10_ReopenState /\ [][C10_ReopenStep]_vars

\* C10 witness: after a second init() resolved on an open instance, an add
\* went through.
C10_Witness ==
  /\ \E k \in 1..Len(reqs) :
       reqs[k].wasOpen /\ reqs[k].phase = "resolved" /\ reqs[k].inst = lastOp.inst
  /\ lastOp.op = "add" /\ lastOp.outcome = "ok" /\ lastOp.inits >= 2

(* ------------------------- one instance, opening and operating: SpecOps *)
\* The instance whose operations are called at every stage of its init().
Operator == "popup"

\* The ids and days the operations are called with.
OpIds == 1..MaxRecords
OpDays == {DateOf(0)}

\* The records the instance adds.
OpInputs == {Activity("a", now, None, None), Activity("a", now, Some(now), Some(Tags))}

NextOps ==
  \/ Len(reqs) < MaxOpsInits /\ InitCall(Operator)
  \/ \E k \in 1..Len(reqs) : OpenProcess(k)
  \/ \E k \in 1..Len(reqs) : OnUpgradeNeeded(k)
  \/ \E k \in 1..Len(reqs) : CursorStep(k)
  \/ \E k \in 1..Len(reqs) : AbortUpgrade(k)
  \/ \E k \in 1..Len(reqs) : CommitUpgrade(k)
  \/ \E k \in 1..Len(reqs) : OnSuccess(k)
  \/ \E k \in 1..Len(reqs) : OnError(k)
  \/ CloseContext(Operator)
  \/ \E a \in OpInputs :
       keyGen <= MaxRecords /\ AddActivity(Operator, a) /\ UNCHANGED aboveVars
  \/ \E id \in OpIds : UpdateActivity(Operator, id, [end |-> Some(now)]) /\ UNCHANGED aboveVars
  \/ \E id \in OpIds : DeleteActivity(Operator, id) /\ UNCHANGED aboveVars
  \/ \E d \in OpDays : GetActivitiesByDate(Operator, d) /\ UNCHANGED aboveVars
  \/ \E d \in OpDays : \E tags \in {{}, Tags} :
       GetActivitiesByDateAndTags(Operator, d, tags) /\ UNCHANGED aboveVars
  \/ GetAllTags(Operator) /\ UNCHANGED aboveVars
  \/ GetCurrentActivity(Operator) /\ UNCHANGED aboveVars
  \/ StopCurrentActivity(Operator) /\ UNCHANGED aboveVars

SpecOps == Init /\ [][NextOps]_vars

\* The store operations of TimeTrackerDB.
StoreOps ==
  {"add", "update", "delete", "byDate", "byDateAndTags", "allTags", "getCurrent", "stop"}

\* C18: every store operation called on an instance none of whose init()
\* calls has resolved (none made, one pending, one failed) rejects with
\* 'Database not initialized' and neither reads nor writes the store.
C18_NotInitializedRejects ==
  (lastOp.op \in StoreOps /\ lastOp.inits = 0) =>
    /\ lastOp.outcome = "notInitialized"
    /\ lastOp.result = None
    /\ objectStore = preStore

\* C18 witness: a delete of a stored record was rejected while the init() of
\* a newly loaded instance was pending.
C18_Witness ==
  /\ lastOp.op = "delete" /\ lastOp.outcome = "notInitialized"
  /\ lastOp.arg \in DOMAIN objectStore
  /\ lastOp.pending

(* ------------------------------------------- one sequential caller, SpecDB *)
\* The instance the caller uses.
Caller == "popup"

\* What init() leaves on a fresh profile: the version-2 database, created
\* empty by the two migration steps, and the instance open.
InitDB ==
  /\ dbVersion = CurrentVersion
  /\ objectStoreNames = {"activities"}
  /\ indexNames = {"date", "activity", "start", "tags"}
  /\ objectStore = EmptyStore
  /\ keyGen = 1
  /\ conns = [i \in Instances |-> IF i = Caller THEN 1 ELSE 0]
  /\ reqs = << [inst |-> Caller, ver |-> CurrentVersion, phase |-> "resolved",
                old |-> 0, steps |-> <<1, 2>>, cursor |-> 0, upgraded |-> TRUE,
                aborted |-> FALSE,
                saved |-> [version |-> 0, stores |-> {}, indexes |-> {},
                           store |-> EmptyStore, keyGen |-> 1],
                wasOpen |-> FALSE] >>
  /\ db = [i \in Instances |-> IF i = Caller THEN Some(CurrentVersion) ELSE None]
  /\ now = 0
  /\ lastOp = NoOp
  /\ preStore = EmptyStore
  /\ session = NoSession
  /\ NoPopup

\* Records the caller adds.
DBInputs ==
  {Activity("a", now, e, None) : e \in {None, Some(now)}}

\* Patches the caller passes to updateActivity.
DBPatches ==
  {[end |-> Some(now)], [end |-> None]} \cup {[id |-> k] : k \in 1..MaxActivities}

\* A start: addActivity of a record without end.
DBStart ==
  /\ keyGen <= MaxActivities
  /\ \E a \in DBInputs :
       /\ a.end = None
       /\ AddActivity(Caller, a)
  /\ session' = [ok |-> session.ok /\ session.last # "start",
                 last |-> "start", started |-> Some(keyGen),
                 created |-> Append(session.created, keyGen)]
  /\ UNCHANGED popupVars

\* addActivity of a finished record.
DBAdd ==
  /\ keyGen <= MaxActivities
  /\ \E a \in DBInputs :
       /\ a.end # None
       /\ AddActivity(Caller, a)
  /\ session' = [session EXCEPT !.ok = FALSE,
                                !.created = Append(session.created, keyGen)]
  /\ UNCHANGED popupVars

DBStop ==
  /\ StopCurrentActivity(Caller)
  /\ session' = [session EXCEPT !.last = "stop"]
  /\ UNCHANGED popupVars

DBUpdate ==
  /\ \E id \in 1..MaxActivities : \E u \in DBPatches : UpdateActivity(Caller, id, u)
  /\ session' = [session EXCEPT !.ok = FALSE]
  /\ UNCHANGED popupVars

DBDelete ==
  /\ \E id \in 1..MaxActivities : DeleteActivity(Caller, id)
  /\ session' = [session EXCEPT !.ok = FALSE]
  /\ UNCHANGED popupVars

DBGetCurrent ==
  /\ GetCurrentActivity(Caller)
  /\ UNCHANGED aboveVars

NextDB ==
  \/ DBStart
  \/ DBAdd
  \/ DBStop
  \/ DBUpdate
  \/ DBDelete
  \/ DBGetCurrent
  \/ Tick

SpecDB == InitDB /\ [][NextDB]_vars

(* ------------------------------------------------------- claims on SpecDB *)
\* The ids of the records of a store that have no end.
OpenIds(store) == {id \in DOMAIN store : store[id].end = None}

Least(S) == CHOOSE x \in S : \A y \in S : x <= y

\* C2: from a store with no open activity, while the caller has only started
\* and stopped and never started twice without a stop in between,
\* getCurrentActivity() gives null after a stop and the record of the latest
\* start after a start.
C2_CurrentFollowsStartStop ==
  session.ok =>
    /\ session.last = "stop" => CurrentOf(objectStore) = None
    /\ session.last = "start" =>
         /\ The(session.started) \in DOMAIN objectStore
         /\ CurrentOf(objectStore) = Some(objectStore[The(session.started)])
         /\ \A id \in DOMAIN objectStore : id <= The(session.started)

\* C2 witness: the third start of a start/stop run is the current activity,
\* and getCurrentActivity() has just returned it.
C2_Witness ==
  /\ session.ok /\ session.last = "start" /\ session.started = Some(3)
  /\ lastOp.op = "getCurrent" /\ lastOp.result = Some(objectStore[3])
  /\ objectStore[1].end # None /\ objectStore[2].end # None

\* C3: after stopCurrentActivity() resolves, getCurrentActivity() returns
\* null, whatever the store held.
C3_NoCurrentAfterStop ==
  (lastOp.op = "stop" /\ lastOp.outcome = "ok") => CurrentOf(objectStore) = None

\* What stopCurrentActivity() does on every store: it gives an end to the
\* activity getCurrentActivity() found and changes nothing else, so that no
\* activity is current afterwards only if at most one lacked an end before;
\* with no current activity the store is unchanged.
StopEndsTheCurrentOne ==
  (lastOp.op = "stop" /\ lastOp.outcome = "ok") =>
    LET open == OpenIds(preStore) IN
    /\ open = {} => objectStore = preStore
    /\ open # {} =>
         /\ DOMAIN objectStore = DOMAIN preStore
         /\ objectStore[Least(open)].end # None
         /\ \A id \in DOMAIN preStore \ {Least(open)} : objectStore[id] = preStore[id]
         /\ \A f \in DOMAIN preStore[Least(open)] \ {"end"} :
              objectStore[Least(open)][f] = preStore[Least(open)][f]
    /\ Cardinality(open) <= 1 => CurrentOf(objectStore) = None

\* C4: getCurrentActivity() returns null exactly when no stored activity lacks
\* an end, and otherwise the stored activity with the lowest id among those
\* that lack one.
C4_CurrentIsFirstWithoutEnd ==
  (lastOp.op = "getCurrent" /\ lastOp.outcome = "ok") =>
    LET open == OpenIds(preStore) IN
    /\ objectStore = preStore
    /\ lastOp.result = None <=> open = {}
    /\ open # {} => lastOp.result = Some(preStore[Least(open)])

\* C4 witness: with a finished activity and two open ones stored,
\* getCurrentActivity() returned the older open one.
C4_Witness ==
  /\ lastOp.op = "getCurrent" /\ lastOp.outcome = "ok"
  /\ 1 \in DOMAIN objectStore /\ objectStore[1].end # None
  /\ OpenIds(objectStore) = {2, 3}
  /\ lastOp.result = Some(objectStore[2])

\* The last operation was an updateActivity(id, patch) that resolved.
UpdateResolved == lastOp.op = "update" /\ lastOp.outcome = "ok"

\* C14: an updateActivity(id, patch) that resolves, whatever the patch, leaves
\* the number of records unchanged, leaves the updated record stored under
\* id, and overwrites no other record.
C14_UpdateKeepsRecordInPlace ==
  UpdateResolved =>
    /\ DOMAIN objectStore = DOMAIN preStore
    /\ objectStore[lastOp.arg] = The(lastOp.result)
    /\ \A id \in DOMAIN preStore \ {lastOp.arg} : objectStore[id] = preStore[id]

\* C15: an updateActivity(id, patch) that resolves changes only the fields
\* named in patch on the record with that id: its other fields keep their
\* values and every other record is unchanged.
C15_UpdateChangesOnlyPatchedFields ==
  UpdateResolved =>
    /\ DOMAIN objectStore = DOMAIN preStore
    /\ \A id \in DOMAIN preStore \ {lastOp.arg} : objectStore[id] = preStore[id]
    /\ \A f \in DOMAIN preStore[lastOp.arg] \ DOMAIN lastOp.patch :
         objectStore[lastOp.arg][f] = preStore[lastOp.arg][f]
    /\ \A f \in DOMAIN lastOp.patch : objectStore[lastOp.arg][f] = lastOp.patch[f]

\* C16: updateActivity(id, patch) on an open instance for an id that is not
\* stored rejects with 'Activity not found' and leaves the store as it was.
C16_UpdateOfUnknownIdRejects ==
  (lastOp.op = "update" /\ lastOp.outcome # "notInitialized") =>
    /\ lastOp.arg \notin DOMAIN preStore <=> lastOp.outcome = "notFound"
    /\ lastOp.outcome = "notFound" => objectStore = preStore

\* C16 witness: an update of an id that was deleted from a store that still
\* holds another record was rejected.
C16_Witness ==
  /\ lastOp.op = "update" /\ lastOp.outcome = "notFound"
  /\ lastOp.arg \notin DOMAIN objectStore
  /\ lastOp.arg < keyGen
  /\ objectStore # EmptyStore

\* deleteActivity(id) on an open instance resolves and removes exactly the
\* record stored under id, if there is one.
C17_DeleteState ==
  (lastOp.op = "delete" /\ lastOp.outcome # "notInitialized") =>
    /\ lastOp.outcome = "ok"
    /\ DOMAIN objectStore = DOMAIN preStore \ {lastOp.arg}
    /\ \A id \in DOMAIN objectStore : objectStore[id] = preStore[id]

\* A deleteActivity(id) that follows a deleteActivity(id) leaves the store as
\* it was.
C17_DeleteAgainStep ==
  (lastOp.op = "delete" /\ lastOp'.op = "delete" /\ lastOp'.arg = lastOp.arg
     /\ lastOp.outcome = "ok" /\ preStore' = objectStore) =>
    objectStore' = objectStore

\* C17: deleteActivity(id) resolves whether or not id is stored; it leaves the
\* store unchanged when id is not stored, removes exactly that record when it
\* is, and changes nothing when called again with the same id.
C17_DeleteIsIdempotent == []C17_DeleteState /\ [][C17_DeleteAgainStep]_vars

\* C17 witness: the second of two deleteActivity(2) calls has resolved, on
\* a store from which the first took record 2 and left record 1.
C17_Witness ==
  /\ lastOp.op = "delete" /\ lastOp.outcome = "ok" /\ lastOp.arg = 2
  /\ \E n \in 1..Len(session.created) : session.created[n] = 2
  /\ preStore = objectStore
  /\ DOMAIN objectStore = {1}

(* ------------------------------------------------------ the popup, SpecPopup *)
\* No store operation is issued in this step.
NoDbOp == UNCHANGED <<persistVars, conns, reqs, db, now, lastOp, preStore>>

\* activityInput.disabled, as updateTrackButton() sets it with every
\* assignment to currentActivity.
ActivityInputDisabled == currentActivity # None

\* The ids of the items on display.
Shown == {activities[n].id : n \in 1..Len(activities)}

\* activities.find(a => a.id === id)
ShownActivity(id) ==
  activities[CHOOSE n \in 1..Len(activities) : activities[n].id = id]

\* A handler suspended at `await`: the store request it waits for was issued
\* when it suspended; `rw` tells a readwrite transaction, `ok` whether the
\* request succeeds, `cur` and `list` hold the result of a read.
Task(kind, pc, rw, ok, cur, list) ==
  [kind |-> kind, pc |-> pc, rw |-> rw, ok |-> ok, cur |-> cur, list |-> list]

Without(seq, k) == SubSeq(seq, 1, k - 1) \o SubSeq(seq, k + 1, Len(seq))

\* The request of task k completes: transactions of overlapping scope run in
\* the order they were created, read-only ones may overtake one another.
Completes(k, kind, pc) ==
  /\ k \in 1..Len(tasks)
  /\ tasks[k].kind = kind
  /\ tasks[k].pc = pc
  /\ \/ k = 1
     \/ \A j \in 1..k : ~tasks[j].rw

Suspend(t) == tasks' = Append(tasks, t)
Resume(k, t) == tasks' = Append(Without(tasks, k), t)
Finish(k) == tasks' = Without(tasks, k)

\* After `await db.init()` and the three loads of TimeTrackerPopup.init() on
\* a fresh profile; the background service has opened the database first.
InitPopup ==
  /\ dbVersion = CurrentVersion
  /\ objectStoreNames = {"activities"}
  /\ indexNames = {"date", "activity", "start", "tags"}
  /\ objectStore = EmptyStore
  /\ keyGen = 1
  /\ conns = [i \in Instances |-> IF i \in {"background", "popup"} THEN 1 ELSE 0]
  /\ reqs = << [inst |-> "background", ver |-> CurrentVersion, phase |-> "resolved",
                old |-> 0, steps |-> <<1, 2>>, cursor |-> 0, upgraded |-> TRUE,
                aborted |-> FALSE,
                saved |-> [version |-> 0, stores |-> {}, indexes |-> {},
                           store |-> EmptyStore, keyGen |-> 1],
                wasOpen |-> FALSE],
               [inst |-> "popup", ver |-> CurrentVersion, phase |-> "resolved",
                old |-> CurrentVersion, steps |-> <<>>, cursor |-> 0,
                upgraded |-> FALSE, aborted |-> FALSE,
                saved |-> [version |-> CurrentVersion, stores |-> {"activities"},
                           indexes |-> {"date", "activity", "start", "tags"},
                           store |-> EmptyStore, keyGen |-> 1],
                wasOpen |-> FALSE] >>
  /\ db = [i \in Instances |->
             IF i \in {"background", "popup"} THEN Some(CurrentVersion) ELSE None]
  /\ now = 0
  /\ lastOp = NoOp
  /\ preStore = EmptyStore
  /\ session = NoSession
  /\ NoPopup

\* startTracking() as far as `await db.addActivity(activity)`.
StartTracking(text) ==
  IF text = ""
    THEN UNCHANGED vars
    ELSE /\ Len(tasks) < MaxTasks
         /\ keyGen <= MaxPopupAdds
         /\ trackBtnDisabled' = TRUE
         /\ AddActivity("popup", Activity(text, now, None, None))
         /\ Suspend(Task("start", "added", TRUE, TRUE, None, <<>>))
         /\ UNCHANGED <<session, filterVars, optionsVars, serviceVars, debounceVars, currentActivity, activities, editingActivityId,
                        modalOpen, msgs>>

\* stopTracking() as far as `await db.updateActivity(id, { end: new Date() })`.
StopTracking ==
  LET id == The(currentActivity).id IN
  IF id = 0
    THEN UNCHANGED vars
    ELSE /\ Len(tasks) < MaxTasks
         /\ trackBtnDisabled' = TRUE
         /\ UpdateActivity("popup", id, [end |-> Some(now)])
         /\ Suspend(Task("stop", "updated", TRUE, id \in DOMAIN objectStore, None, <<>>))
         /\ UNCHANGED <<session, filterVars, optionsVars, serviceVars, debounceVars, currentActivity, activities, editingActivityId,
                        modalOpen, msgs>>

\* handleTrackClick()
HandleTrackClick(text) ==
  IF currentActivity # None THEN StopTracking ELSE StartTracking(text)

\* A click on the track button, with `text` in the activity input.
ClickTrack(text) ==
  /\ ~trackBtnDisabled
  /\ HandleTrackClick(text)

\* Enter pressed in the activity input.
PressEnter(text) ==
  /\ ~ActivityInputDisabled
  /\ HandleTrackClick(text)

\* duplicateActivity(id), on a double click on an item of the list.
DuplicateActivity(id) ==
  /\ id \in Shown
  /\ IF currentActivity # None
       THEN UNCHANGED vars
       ELSE StartTracking(ShownActivity(id).activity)

\* editActivity(id), on a click on an item's edit button.
EditActivity(id) ==
  /\ id \in Shown
  /\ editingActivityId' = Some(id)
  /\ modalOpen' = TRUE
  /\ NoDbOp
  /\ UNCHANGED <<session, filterVars, optionsVars, serviceVars, debounceVars, currentActivity, activities, trackBtnDisabled, tasks, msgs>>

\* showAddActivityModal()
ShowAddActivityModal ==
  /\ editingActivityId' = None
  /\ modalOpen' = TRUE
  /\ NoDbOp
  /\ UNCHANGED <<session, filterVars, optionsVars, serviceVars, debounceVars, currentActivity, activities, trackBtnDisabled, tasks, msgs>>

\* closeModal(), from the close button, Cancel or the backdrop.
CloseModal ==
  /\ modalOpen
  /\ editingActivityId' = None
  /\ modalOpen' = FALSE
  /\ NoDbOp
  /\ UNCHANGED <<session, filterVars, optionsVars, serviceVars, debounceVars, currentActivity, activities, trackBtnDisabled, tasks, msgs>>

\* The times of day the edit form can name on the selected date.
FormTimes ==
  {t \in selectedDate * TicksPerDay .. selectedDate * TicksPerDay + MaxTime :
     DateOf(t) = selectedDate}

\* handleEditSubmit(e) as far as the await of its write: an empty name or
\* an end that is not after the start returns with an error message.
HandleEditSubmit(name, start, end, tags) ==
  /\ modalOpen
  /\ IF name = "" \/ (end # None /\ The(end) <= start)
       THEN UNCHANGED vars
       ELSE /\ Len(tasks) < MaxTasks
            /\ IF editingActivityId # None
                 THEN LET id == The(editingActivityId) IN
                      /\ UpdateActivity("popup", id,
                           [activity |-> name, start |-> start, end |-> end, tags |-> tags])
                      /\ Suspend(Task("submit", "written", TRUE,
                                      id \in DOMAIN objectStore, None, <<>>))
                 ELSE /\ keyGen <= MaxPopupAdds
                      /\ AddActivity("popup",
                           Merge(Activity(name, start, end, tags), [date |-> selectedDate]))
                      /\ Suspend(Task("submit", "written", TRUE, TRUE, None, <<>>))
            /\ UNCHANGED <<session, filterVars, optionsVars, serviceVars, debounceVars, currentActivity, activities, editingActivityId,
                           modalOpen, trackBtnDisabled, msgs>>

\* deleteActivity(id) of the popup, confirmed, as far as `await db.deleteActivity(id)`.
PopupDeleteActivity(id) ==
  /\ id \in Shown
  /\ Len(tasks) < MaxTasks
  /\ DeleteActivity("popup", id)
  /\ Suspend(Task("delete", "deleted", TRUE, TRUE, None, <<>>))
  /\ UNCHANGED <<session, filterVars, optionsVars, serviceVars, debounceVars, currentActivity, activities, editingActivityId,
                 modalOpen, trackBtnDisabled, msgs>>

\* The store request of loadActivities(): by date and tags when a tag
\* filter is selected, by date otherwise.
LoadActivitiesRequest(date, tags) ==
  IF tags # {}
    THEN GetActivitiesByDateAndTags("popup", date, tags)
    ELSE GetActivitiesByDate("popup", date)

\* What that request will deliver.
LoadActivitiesResult(date, tags) ==
  IF tags # {}
    THEN ByDateAndTags(objectStore, date, tags)
    ELSE ByDate(objectStore, date)

\* loadActivities() as far as its await, inside a handler that awaits it.
CallLoadActivities(k, kind) ==
  /\ LoadActivitiesRequest(selectedDate, selectedTags)
  /\ Resume(k, Task(kind, "loadActivities", FALSE, TRUE, None,
                    LoadActivitiesResult(selectedDate, selectedTags)))

\* loadCurrentActivity() as far as its await.
CallLoadCurrentActivity(k, kind) ==
  /\ GetCurrentActivity("popup")
  /\ Resume(k, Task(kind, "loadCurrent", FALSE, TRUE, CurrentOf(objectStore), <<>>))

\* startTracking() after `await db.addActivity(activity)`.
StartAdded(k) ==
  /\ Completes(k, "start", "added")
  /\ CallLoadCurrentActivity(k, "start")
  /\ UNCHANGED <<session, filterVars, optionsVars, serviceVars, debounceVars, currentActivity, activities, editingActivityId,
                 modalOpen, trackBtnDisabled, msgs>>

\* startTracking() after `await this.loadCurrentActivity()`.
StartLoadedCurrent(k) ==
  /\ Completes(k, "start", "loadCurrent")
  /\ currentActivity' = tasks[k].cur
  /\ CallLoadActivities(k, "start")
  /\ UNCHANGED <<session, filterVars, optionsVars, serviceVars, debounceVars, activities, editingActivityId, modalOpen,
                 trackBtnDisabled, msgs>>

\* startTracking() after `await this.loadActivities()`, to the end of its
\* finally block. (UPDATE_BADGE makes the background read, not write.)
StartLoadedActivities(k) ==
  /\ Completes(k, "start", "loadActivities")
  /\ activities' = tasks[k].list
  /\ trackBtnDisabled' = FALSE
  /\ Finish(k)
  /\ NoDbOp
  /\ UNCHANGED <<session, filterVars, optionsVars, serviceVars, debounceVars, currentActivity, editingActivityId, modalOpen, msgs>>

\* stopTracking() after `await db.updateActivity(...)`: 'Activity not found'
\* goes to the catch and finally blocks.
StopUpdated(k) ==
  /\ Completes(k, "stop", "updated")
  /\ IF tasks[k].ok
       THEN /\ currentActivity' = None
            /\ CallLoadActivities(k, "stop")
            /\ UNCHANGED trackBtnDisabled
       ELSE /\ trackBtnDisabled' = FALSE
            /\ Finish(k)
            /\ NoDbOp
            /\ UNCHANGED currentActivity
  /\ UNCHANGED <<session, filterVars, optionsVars, serviceVars, debounceVars, activities, editingActivityId, modalOpen, msgs>>

\* stopTracking() after `await this.loadActivities()`: it sends
\* STOP_CURRENT_ACTIVITY and runs its finally block.
StopLoadedActivities(k) ==
  /\ Completes(k, "stop", "loadActivities")
  /\ msgs < MaxMsgs
  /\ activities' = tasks[k].list
  /\ msgs' = msgs + 1
  /\ trackBtnDisabled' = FALSE
  /\ Finish(k)
  /\ NoDbOp
  /\ UNCHANGED <<session, filterVars, optionsVars, serviceVars, debounceVars, currentActivity, editingActivityId, modalOpen>>

\* handleEditSubmit() after the await of its write: closeModal(), loadTags().
SubmitWritten(k) ==
  /\ Completes(k, "submit", "written")
  /\ IF tasks[k].ok
       THEN /\ editingActivityId' = None
            /\ modalOpen' = FALSE
            /\ GetAllTags("popup")
            /\ Resume(k, Merge(Task("submit", "loadTags", FALSE, TRUE, None, <<>>),
                               [tags |-> AllTags(objectStore)]))
       ELSE /\ Finish(k)
            /\ NoDbOp
            /\ UNCHANGED <<editingActivityId, modalOpen>>
  /\ UNCHANGED <<session, filterVars, optionsVars, serviceVars, debounceVars, currentActivity, activities, trackBtnDisabled, msgs>>

\* handleEditSubmit() after `await this.loadTags()`.
SubmitLoadedTags(k) ==
  /\ Completes(k, "submit", "loadTags")
  /\ allTags' = tasks[k].tags
  /\ UNCHANGED <<selectedDate, selectedTags>>
  /\ CallLoadActivities(k, "submit")
  /\ UNCHANGED <<session, optionsVars, serviceVars, debounceVars, currentActivity, activities, editingActivityId,
                 modalOpen, trackBtnDisabled, msgs>>

\* deleteActivity() of the popup after `await db.deleteActivity(id)`.
DeleteDeleted(k) ==
  /\ Completes(k, "delete", "deleted")
  /\ CallLoadActivities(k, "delete")
  /\ UNCHANGED <<session, filterVars, optionsVars, serviceVars, debounceVars, currentActivity, activities, editingActivityId,
                 modalOpen, trackBtnDisabled, msgs>>

\* handleEditSubmit() and deleteActivity() after `await this.loadActivities()`.
LoadedActivities(k, kind) ==
  /\ Completes(k, kind, "loadActivities")
  /\ activities' = tasks[k].list
  /\ CallLoadCurrentActivity(k, kind)
  /\ UNCHANGED <<session, filterVars, optionsVars, serviceVars, debounceVars, currentActivity, editingActivityId, modalOpen,
                 trackBtnDisabled, msgs>>

\* handleEditSubmit() and deleteActivity() after `await this.loadCurrentActivity()`.
LoadedCurrent(k, kind) ==
  /\ Completes(k, kind, "loadCurrent")
  /\ currentActivity' = tasks[k].cur
  /\ Finish(k)
  /\ NoDbOp
  /\ UNCHANGED <<session, filterVars, optionsVars, serviceVars, debounceVars, activities, editingActivityId, modalOpen,
                 trackBtnDisabled, msgs>>

\* The background's onMessage listener takes STOP_CURRENT_ACTIVITY:
\* BackgroundService.stopCurrentActivity() as far as the await of
\* getCurrentActivity() inside db.stopCurrentActivity().
OnStopMessage ==
  /\ msgs > 0
  /\ Len(tasks) < MaxTasks
  /\ msgs' = msgs - 1
  /\ GetCurrentActivity("background")
  /\ Suspend(Task("bgStop", "got", FALSE, db["background"] # None,
                  CurrentOf(objectStore), <<>>))
  /\ UNCHANGED <<session, filterVars, optionsVars, serviceVars, debounceVars, currentActivity, activities, editingActivityId,
                 modalOpen, trackBtnDisabled>>

\* BackgroundService.stopCurrentActivity(): the try block around
\* db.stopCurrentActivity() has a catch that logs, so the promise of the async
\* method is fulfilled whether the stop went through or threw.
StopPromise(ok) == "fulfilled"

\* The STOP_CURRENT_ACTIVITY case of the onMessage listener: `.then` answers
\* { success: true }, `.catch` answers { success: false, error }. `failed`
\* notes beside the answer whether db.stopCurrentActivity() threw. The last
\* MaxResponses answers are kept.
SendResponse(ok) ==
  LET answer == [success |-> StopPromise(ok) = "fulfilled", failed |-> ~ok]
      all == Append(responses, answer)
  IN responses' = IF Len(all) > MaxResponses THEN Tail(all) ELSE all

\* db.stopCurrentActivity() of the background after its getCurrentActivity().
BackgroundGot(k) ==
  LET cur == tasks[k].cur IN
  /\ Completes(k, "bgStop", "got")
  /\ IF tasks[k].ok /\ cur # None /\ The(cur).id # 0
       THEN /\ UpdateActivity("background", The(cur).id, [end |-> Some(now)])
            /\ Resume(k, Task("bgStop", "updated", TRUE,
                              The(cur).id \in DOMAIN objectStore, None, <<>>))
            /\ UNCHANGED responses
       ELSE /\ Finish(k)
            /\ NoDbOp
            /\ SendResponse(tasks[k].ok)
  /\ UNCHANGED <<session, filterVars, optionsVars, updateInterval, intervals, debounceVars,
                 currentActivity, activities, editingActivityId,
                 modalOpen, trackBtnDisabled, msgs>>

\* BackgroundService.stopCurrentActivity() after db.stopCurrentActivity():
\* resolved or caught, the store is left as it is, and the listener answers.
BackgroundUpdated(k) ==
  /\ Completes(k, "bgStop", "updated")
  /\ Finish(k)
  /\ NoDbOp
  /\ SendResponse(tasks[k].ok)
  /\ UNCHANGED <<session, filterVars, optionsVars, updateInterval, intervals, debounceVars,
                 currentActivity, activities, editingActivityId,
                 modalOpen, trackBtnDisabled, msgs>>

\* What the user can type as a name.
Texts == {"", "a"}

NextPopup ==
  \/ \E text \in Texts : ClickTrack(text)
  \/ \E text \in Texts : PressEnter(text)
  \/ \E id \in 1..MaxPopupAdds : DuplicateActivity(id)
  \/ \E id \in 1..MaxPopupAdds : EditActivity(id)
  \/ ShowAddActivityModal
  \/ CloseModal
  \/ \E name \in Texts : \E start \in FormTimes :
       \E end \in {None} \cup {Some(t) : t \in FormTimes} :
         \E tags \in {None} :
           HandleEditSubmit(name, start, end, tags)
  \/ \E id \in 1..MaxPopupAdds : PopupDeleteActivity(id)
  \/ \E k \in 1..MaxTasks : StartAdded(k)
  \/ \E k \in 1..MaxTasks : StartLoadedCurrent(k)
  \/ \E k \in 1..MaxTasks : StartLoadedActivities(k)
  \/ \E k \in 1..MaxTasks : StopUpdated(k)
  \/ \E k \in 1..MaxTasks : StopLoadedActivities(k)
  \/ \E k \in 1..MaxTasks : SubmitWritten(k)
  \/ \E k \in 1..MaxTasks : SubmitLoadedTags(k)
  \/ \E k \in 1..MaxTasks : DeleteDeleted(k)
  \/ \E k \in 1..MaxTasks : \E kind \in {"submit", "delete"} : LoadedActivities(k, kind)
  \/ \E k \in 1..MaxTasks : \E kind \in {"submit", "delete"} : LoadedCurrent(k, kind)
  \/ OnStopMessage
  \/ \E k \in 1..MaxTasks : BackgroundGot(k)
  \/ \E k \in 1..MaxTasks : BackgroundUpdated(k)

SpecPopup == InitPopup /\ [][NextPopup]_vars

(* ---------------------------------------------------- claims on SpecPopup *)
\* C1: in every state the popup's actions reach, under any interleaving, at
\* most one stored activity has no end.
C1_AtMostOneOpenActivity == Cardinality(OpenIds(objectStore)) <= 1

\* C11: in a store at schema version 2 every record has a tags field, after
\* the migration and after every create and update the popup makes.
C11_EveryRecordHasTags ==
  dbVersion = CurrentVersion =>
    \A id \in DOMAIN objectStore : objectStore[id].tags # None

\* C32: the background answers a STOP_CURRENT_ACTIVITY message with
\* { success: false, error } when stopping failed with a store error and with
\* { success: true } only when the stop went through.
C32_ResponseTellsOutcome ==
  \A n \in 1..Len(responses) : responses[n].success = ~responses[n].failed

\* C35: the message the popup sends after it has ended an activity itself
\* gives no other activity an `end`: the stop the background runs for it
\* writes nothing.
C35_StaleStopEndsNothing ==
  (lastOp.inst = "background" /\ lastOp.op = "update") => objectStore = preStore

\* C36: stopCurrentActivity() writes only to a record that is stored and
\* still lacks an `end` at the time of the write, and does not fail when the
\* record it read has been deleted or ended since.
C36_StopWritesOnlyToCurrent ==
  (lastOp.inst = "background" /\ lastOp.op = "update") =>
    /\ lastOp.outcome = "ok"
    /\ LacksEnd(preStore[lastOp.arg])

(* ------------------------- the store and the options page, SpecStore *)
\* The builds whose TimeTrackerDB may have created the store.
Builds == {"legacy", "popup"}

\* The indexes a build's onupgradeneeded creates on a fresh profile.
IndexesOf(i) ==
  IF i = "legacy" THEN {"date", "activity", "start"}
  ELSE {"date", "activity", "start", "tags"}

\* After init() of one build's instance has resolved on a fresh profile.
InitStore ==
  \E b \in Builds :
    /\ dbVersion = Version(b)
    /\ objectStoreNames = {"activities"}
    /\ indexNames = IndexesOf(b)
    /\ objectStore = EmptyStore
    /\ keyGen = 1
    /\ conns = [i \in Instances |-> IF i = b THEN 1 ELSE 0]
    /\ reqs = << [inst |-> b, ver |-> Version(b), phase |-> "resolved",
                  old |-> 0, steps |-> IF b = "legacy" THEN <<1>> ELSE <<1, 2>>,
                  cursor |-> 0, upgraded |-> TRUE, aborted |-> FALSE,
                  saved |-> [version |-> 0, stores |-> {}, indexes |-> {},
                             store |-> EmptyStore, keyGen |-> 1],
                  wasOpen |-> FALSE] >>
    /\ db = [i \in Instances |-> IF i = b THEN Some(Version(b)) ELSE None]
    /\ now = 0
    /\ lastOp = NoOp
    /\ preStore = EmptyStore
    /\ session = NoSession
    /\ NoPopup

\* The instance in use.
User == CHOOSE i \in Builds : db[i] # None

\* Start times the user may enter: the selected day and the first tick of
\* the next.
StoreTimes == 0..TicksPerDay

\* Records passed to addActivity, their (year, month, day) taken from the
\* start; the last has an empty name.
StoreInputs ==
  {Activity("a", t, None, None) : t \in StoreTimes}
    \cup {Activity("a", 0, Some(0), None), Activity("", 0, None, None)}

\* Patches passed to updateActivity.
StorePatches == {[end |-> Some(TicksPerDay)], [id |-> MaxActivities - 1]}

Created(ids) == session' = [session EXCEPT !.ok = FALSE, !.created = @ \o ids]
NothingCreated == session' = [session EXCEPT !.ok = FALSE]

StoreAdd ==
  /\ keyGen <= MaxActivities
  /\ \E a \in StoreInputs : AddActivity(User, a)
  /\ Created(<<keyGen>>)
  /\ UNCHANGED popupVars

StoreUpdate ==
  /\ \E id \in 1..MaxActivities : \E u \in StorePatches : UpdateActivity(User, id, u)
  /\ NothingCreated
  /\ UNCHANGED popupVars

StoreDelete ==
  /\ \E id \in 1..MaxActivities : DeleteActivity(User, id)
  /\ NothingCreated
  /\ UNCHANGED popupVars

StoreByDate ==
  /\ \E d \in {DateOf(t) : t \in StoreTimes} : GetActivitiesByDate(User, d)
  /\ UNCHANGED aboveVars

\* How indexedDB.open('TimeTrackerDB', 1) of the options page ends: a newer
\* store fails it with a VersionError; with no database it creates one
\* without object stores (there is no onupgradeneeded handler), so that the
\* transaction on 'activities' throws inside onsuccess and the promise never
\* settles.
OptionsOpen ==
  IF dbVersion > OptionsVersion THEN "versionError"
  ELSE IF "activities" \notin objectStoreNames THEN "hung"
  ELSE "ok"

\* The connection of an open that succeeded is never closed.
OptionsConnects ==
  /\ conns["options"] < MaxOptionsOpens
  /\ conns' = [conns EXCEPT !["options"] =
                 IF OptionsOpen = "versionError" THEN @ ELSE @ + 1]
  /\ dbVersion' = IF dbVersion < OptionsVersion THEN OptionsVersion ELSE dbVersion

\* getAllRequest.result.sort(by start)
AllByStart(store) ==
  SortSeq(GetAll(store),
          LAMBDA a, b : a.start < b.start \/ (a.start = b.start /\ a.id < b.id))

\* OptionsPage.getAllActivities()
GetAllActivities ==
  /\ OptionsConnects
  /\ ObserveAt("options", "getAll", 0, OptionsOpen,
               IF OptionsOpen = "ok" THEN Some(AllByStart(objectStore)) ELSE None)
  /\ UNCHANGED <<objectStoreNames, indexNames, objectStore, keyGen, reqs, db, now>>
  /\ UNCHANGED aboveVars

\* importActivities: the record written for a parsed one. Name and date
\* fields are defaulted, tags and id are not copied.
Normalized(activity) ==
  [activity |-> IF activity.activity = "" THEN "Imported Activity" ELSE activity.activity,
   start |-> activity.start, end |-> activity.end, tags |-> None,
   date |-> activity.date]

RECURSIVE AddAllKeepsIds(_, _, _)
\* Mutant: a record that carries an id is written under that id.
AddAllKeepsIds(store, list, gen) ==
  IF list = <<>> THEN store
  ELSE AddAllKeepsIds(Put(store, Merge(Merge(Normalized(Head(list)), [id |-> gen]),
                                       [f \in DOMAIN Head(list) \cap {"id"} |-> Head(list)[f]])),
                      Tail(list), gen + 1)

RECURSIVE AddAll(_, _, _)
\* objectStore.add of each record of a list, in order, from generator key gen.
AddAll(store, list, gen) ==
  IF list = <<>> THEN store
  ELSE AddAll(Put(store, Merge(Normalized(Head(list)), [id |-> gen])), Tail(list), gen + 1)

\* The arrays an import file may hold: the first record carries an id, as
\* exported ones do; the second record's day fields name the day before its
\* start.
ImportFiles ==
  LET r1 == Merge(Activity("", 0, None, Some(Tags)), [id |-> 1])
      r2 == Merge(Activity("a", TicksPerDay, Some(TicksPerDay), None), [date |-> 0])
  IN {<<>>, <<r1>>, <<r1, r2>>}

\* OptionsPage.importActivities(activities): resolve() is called by the add
\* that makes `imported` equal to activities.length, so never for an empty
\* array.
ImportActivities(file) ==
  /\ OptionsConnects
  /\ keyGen + Len(file) <= MaxActivities + 1
  /\ IF OptionsOpen = "ok"
       THEN /\ objectStore' = AddAll(objectStore, file, keyGen)
            /\ keyGen' = keyGen + Len(file)
            /\ ObserveCall("options", "import", Len(file), [file |-> file],
                           IF file = <<>> THEN "hung" ELSE "ok", None)
            /\ Created([n \in 1..Len(file) |-> keyGen + n - 1])
       ELSE /\ UNCHANGED <<objectStore, keyGen>>
            /\ ObserveCall("options", "import", Len(file), [file |-> file],
                           OptionsOpen, None)
            /\ NothingCreated
  /\ UNCHANGED <<objectStoreNames, indexNames, reqs, db, now, popupVars>>

\* JSON.stringify(exportData, null, 2) of exportData = { activities }: the
\* text of an object whose member `activities` is the array. A Date is
\* written as its ISO string, which new Date() reads back to the same
\* instant; a record's id and tags are members of its object.
ExportJson(list) == [array |-> FALSE, activities |-> list]

\* The text of a file whose top level is the array itself.
ArrayJson(list) == [array |-> TRUE, activities |-> list]

\* OptionsPage.exportData('json') with no export filter set: the file handed
\* to downloadFile.
ExportData ==
  /\ OptionsConnects
  /\ ObserveAt("options", "export", 0, OptionsOpen,
               IF OptionsOpen = "ok" THEN Some(ExportJson(AllByStart(objectStore)))
               ELSE None)
  /\ UNCHANGED <<objectStoreNames, indexNames, objectStore, keyGen, reqs, db, now>>
  /\ UNCHANGED aboveVars

\* The files the user may pick: hand-made arrays, and what exportData('json')
\* wrote for a store that held the records of such an array.
ExportedLists == {AllByStart(AddAll(EmptyStore, file, 1)) : file \in ImportFiles}

ImportDocuments ==
  {ArrayJson(file) : file \in ImportFiles} \cup {ExportJson(list) : list \in ExportedLists}

\* OptionsPage.importData(event): JSON.parse, the Array.isArray test, then
\* importActivities. The throw of the test is caught and the button is
\* enabled again; nothing has been opened or written by then.
ImportData(document) ==
  IF document.array
    THEN ImportActivities(document.activities)
    ELSE /\ ObserveCall("options", "import", Len(document.activities),
                        [file |-> document.activities], "invalidFormat", None)
         /\ NothingCreated
         /\ UNCHANGED <<persistVars, conns, reqs, db, now, popupVars>>

\* Mutant: clearing the store starts the key generator over.
KeyAfterClearResets(gen) == 1

\* objectStore.clear() leaves the key generator where it is.
KeyAfterClear(gen) == gen

\* OptionsPage.deleteAllActivities()
DeleteAllActivities ==
  /\ OptionsConnects
  /\ IF OptionsOpen = "ok"
       THEN /\ objectStore' = EmptyStore
            /\ keyGen' = KeyAfterClear(keyGen)
       ELSE UNCHANGED <<objectStore, keyGen>>
  /\ ObserveAt("options", "clear", 0, OptionsOpen, None)
  /\ NothingCreated
  /\ UNCHANGED <<objectStoreNames, indexNames, reqs, db, now, popupVars>>

NextStore ==
  \/ StoreAdd
  \/ StoreUpdate
  \/ StoreDelete
  \/ StoreByDate
  \/ GetAllActivities
  \/ ExportData
  \/ \E document \in ImportDocuments : ImportData(document)
  \/ DeleteAllActivities

SpecStore == InitStore /\ [][NextStore]_vars

(* ------------------------------------------------ claims on SpecStore *)
AscendingByStart(list) ==
  \A m, n \in 1..Len(list) : m < n => list[m].start <= list[n].start

\* The list holds each record of the set of ids once, as stored, and no other.
ExactlyThe(list, store, ids) ==
  /\ Len(list) = Cardinality(ids)
  /\ \A id \in ids : \E n \in 1..Len(list) : list[n] = store[id]

\* C12: every getAllActivities() call of the options page on a store that
\* init() has opened at its target version succeeds and returns every stored
\* activity with its fields intact, ascending by start.
C12_GetAllReturnsEveryActivity ==
  lastOp.op = "getAll" =>
    /\ lastOp.outcome = "ok"
    /\ ExactlyThe(The(lastOp.result), preStore, DOMAIN preStore)
    /\ AscendingByStart(The(lastOp.result))

\* C13: every id given to a created record (by addActivity or by an import)
\* is a positive integer that no earlier create was given, whatever was
\* updated, deleted or cleared in between; addActivity returns that id.
C13_CreatedIdsAreFresh ==
  /\ \A m, n \in 1..Len(session.created) :
       /\ session.created[m] \in Nat \ {0}
       /\ m # n => session.created[m] # session.created[n]
  /\ (lastOp.op = "add" /\ lastOp.outcome = "ok") =>
       The(lastOp.result).id = session.created[Len(session.created)]

\* An import has created records after every earlier one was deleted or
\* cleared.
C13_Witness ==
  /\ lastOp.op = "import"
  /\ lastOp.outcome = "ok"
  /\ Len(session.created) = MaxActivities
  /\ preStore = EmptyStore
  /\ DOMAIN objectStore = {MaxActivities - 1, MaxActivities}

\* `activity`: a non-empty display name.
WellShaped(a) == a.activity # ""

\* C19: addActivity never accepts a record that fails the minimal shape
\* requirements: what an accepted call has written is well shaped.
C19_IllShapedAddIsRejected ==
  (lastOp.op = "add" /\ lastOp.outcome = "ok") => WellShaped(The(lastOp.result))

\* C20: when the day fields of every stored record are those of its start,
\* getActivitiesByDate(d) returns exactly the stored records of day d, each
\* once, ascending by start.
C20_ByDateReturnsTheDay ==
  ( /\ lastOp.op = "byDate"
    /\ lastOp.outcome = "ok"
    /\ \A id \in DOMAIN preStore : preStore[id].date = DateOf(preStore[id].start) ) =>
    /\ ExactlyThe(The(lastOp.result), preStore,
                  {id \in DOMAIN preStore : DateOf(preStore[id].start) = lastOp.arg})
    /\ AscendingByStart(The(lastOp.result))

\* A day's two records come back in the order of their starts, against the
\* order of their ids, and a record of another day is left out.
C20_Witness ==
  /\ lastOp.op = "byDate"
  /\ lastOp.outcome = "ok"
  /\ \A id \in DOMAIN preStore : preStore[id].date = DateOf(preStore[id].start)
  /\ Cardinality(DOMAIN preStore) = MaxActivities
  /\ Len(The(lastOp.result)) = 2
  /\ The(lastOp.result)[1].id > The(lastOp.result)[2].id
  /\ The(lastOp.result)[1].start < The(lastOp.result)[2].start

\* C30: an importActivities of n records that resolves has made n creates:
\* the store holds the records it held, unchanged, and n more, each under an
\* id no record had been given before, whatever id the input carried.
C30_ImportCreatesEachRecord ==
  (lastOp.op = "import" /\ lastOp.outcome = "ok") =>
    LET n == lastOp.arg
        made == Len(session.created)
        new == {session.created[k] : k \in made - n + 1 .. made}
    IN /\ DOMAIN objectStore = DOMAIN preStore \cup new
       /\ DOMAIN preStore \cap new = {}
       /\ Cardinality(new) = n
       /\ \A id \in DOMAIN preStore : objectStore[id] = preStore[id]
       /\ \A id \in new : \A k \in 1..made - n : session.created[k] # id

\* Two records, the first carrying the id of a stored record, have been
\* imported into a store that held that record.
C30_Witness ==
  /\ lastOp.op = "import"
  /\ lastOp.outcome = "ok"
  /\ lastOp.arg = 2
  /\ DOMAIN preStore = {1}
  /\ Cardinality(DOMAIN objectStore) = 3

\* The records of a list, id left out.
WithoutIds(list) ==
  [n \in 1..Len(list) |-> [f \in DOMAIN list[n] \ {"id"} |-> list[n][f]]]

\* C31: a file written by exportData('json') is accepted by importData, and
\* imported into an empty store it yields the exported activities, equal in
\* every field but id. Stated for exports of one record or more, on a store
\* the options page can open.
C31_ExportedFileImports ==
  (/\ lastOp.op = "import"
   /\ lastOp.patch.file \in ExportedLists \ {<<>>}
   /\ preStore = EmptyStore
   /\ dbVersion = OptionsVersion) =>
    /\ lastOp.outcome = "ok"
    /\ WithoutIds(AllByStart(objectStore)) = WithoutIds(lastOp.patch.file)


\* C39: importData always terminates: for every parsed array, the empty one
\* included, importActivities resolves or rejects, so that the `finally` of
\* importData enables the import button again.
C39_ImportSettles ==
  lastOp.op = "import" => lastOp.outcome \in {"ok", "versionError", "invalidFormat"}

(* ------------------------- the popup's date and tag selection, SpecNav *)
\* The days the date picker is moved over.
MaxDay == 1

\* loadActivities() called without await by a handler that has just set the
\* selection: it runs as far as its await.
Reload(date, tags) ==
  /\ Len(tasks) < MaxTasks
  /\ LoadActivitiesRequest(date, tags)
  /\ Suspend(Task("load", "loadActivities", FALSE, TRUE, None,
                  LoadActivitiesResult(date, tags)))

\* navigateDate(days), from the previous and next buttons.
NavigateDate(days) ==
  /\ selectedDate + days \in 0..MaxDay
  /\ selectedDate' = selectedDate + days
  /\ Reload(selectedDate', selectedTags)
  /\ UNCHANGED <<session, selectedTags, allTags, optionsVars, serviceVars, debounceVars, currentActivity,
                 activities, editingActivityId, modalOpen, trackBtnDisabled, msgs>>

\* goToToday()
GoToToday ==
  /\ selectedDate' = DateOf(now)
  /\ Reload(selectedDate', selectedTags)
  /\ UNCHANGED <<session, selectedTags, allTags, optionsVars, serviceVars, debounceVars, currentActivity,
                 activities, editingActivityId, modalOpen, trackBtnDisabled, msgs>>

\* handleDateChange(), with the day typed into the date input, if any.
HandleDateChange(value) ==
  IF value = None
    THEN UNCHANGED vars
    ELSE /\ selectedDate' = The(value)
         /\ Reload(selectedDate', selectedTags)
         /\ UNCHANGED <<session, selectedTags, allTags, optionsVars, serviceVars, debounceVars, currentActivity,
                        activities, editingActivityId, modalOpen, trackBtnDisabled, msgs>>

\* handleTagFilterChange(), with the option chosen in the tag filter: one of
\* allTags, or "" for 'All activities'.
HandleTagFilterChange(selectedTag) ==
  /\ selectedTag \in allTags \cup {""}
  /\ selectedTags' = IF selectedTag # "" THEN {selectedTag} ELSE {}
  /\ Reload(selectedDate, selectedTags')
  /\ UNCHANGED <<session, selectedDate, allTags, optionsVars, serviceVars, debounceVars, currentActivity,
                 activities, editingActivityId, modalOpen, trackBtnDisabled, msgs>>

\* clearTagFilter(): the button is enabled while a tag is selected.
ClearTagFilter ==
  /\ selectedTags # {}
  /\ selectedTags' = {}
  /\ Reload(selectedDate, selectedTags')
  /\ UNCHANGED <<session, selectedDate, allTags, optionsVars, serviceVars, debounceVars, currentActivity,
                 activities, editingActivityId, modalOpen, trackBtnDisabled, msgs>>

\* loadActivities() after its await, when no handler awaits it.
Reloaded(k) ==
  /\ Completes(k, "load", "loadActivities")
  /\ activities' = tasks[k].list
  /\ Finish(k)
  /\ NoDbOp
  /\ UNCHANGED <<session, filterVars, optionsVars, serviceVars, debounceVars, currentActivity, editingActivityId,
                 modalOpen, trackBtnDisabled, msgs>>

\* The popup with its date picker and tag filter: manual adds and edits on
\* the selected day, no tracking.
NextNav ==
  \/ \E days \in {-1, 1} : NavigateDate(days)
  \/ GoToToday
  \/ \E value \in {None} \cup {Some(d) : d \in 0..MaxDay} : HandleDateChange(value)
  \/ \E selectedTag \in Tags \cup {""} : HandleTagFilterChange(selectedTag)
  \/ ClearTagFilter
  \/ \E k \in 1..MaxTasks : Reloaded(k)
  \/ \E id \in 1..MaxPopupAdds : EditActivity(id)
  \/ ShowAddActivityModal
  \/ CloseModal
  \/ \E name \in {"a"} : \E start \in {selectedDate * TicksPerDay} :
       \E end \in {None} : \E tags \in {None, Some(Tags)} :
         HandleEditSubmit(name, start, end, tags)
  \/ \E k \in 1..MaxTasks : SubmitWritten(k)
  \/ \E k \in 1..MaxTasks : SubmitLoadedTags(k)
  \/ \E k \in 1..MaxTasks : LoadedActivities(k, "submit")
  \/ \E k \in 1..MaxTasks : LoadedCurrent(k, "submit")

SpecNav == InitPopup /\ [][NextNav]_vars

(* ------------------------------------------------------ claims on SpecNav *)
\* C23: in every state the popup's actions reach, under any interleaving of
\* their asynchronous steps, the (year, month, day) of every stored activity
\* is the local calendar date of its start.
C23_DayFieldsFollowStart ==
  \A id \in DOMAIN objectStore :
    objectStore[id].date = DateOf(objectStore[id].start)

\* C21: in every store state and for every day d,
\* getActivitiesByDateAndTags(d, []) returns the sequence of records that
\* getActivitiesByDate(d) returns.
C21_NoTagsIsByDate ==
  \A d \in 0..MaxDay : ByDateAndTags(objectStore, d, {}) = ByDate(objectStore, d)

(* ------------------------------------- the date queries alone, SpecQuery *)
\* Records in the store the queries are put to.
MaxQueryRecords == 3

\* The tags in use.
QueryTags == {"work", "home"}

\* What a stored record may look like: a start on the first or the second
\* day, tags absent, empty, one or both, day fields of the start or not.
QueryRecords ==
  {Merge(Activity("a", t, None, tags), [date |-> d]) :
     t \in {0, 1, TicksPerDay}, d \in 0..1,
     tags \in {None, Some({}), Some({"work"}), Some(QueryTags)}}

\* A store of the current build holding any records, with init() resolved.
InitQuery ==
  /\ dbVersion = CurrentVersion
  /\ objectStoreNames = {"activities"}
  /\ indexNames = IndexesOf("popup")
  /\ \E n \in 0..MaxQueryRecords :
       /\ \E rs \in [1..n -> QueryRecords] :
            objectStore = [k \in 1..n |-> Merge(rs[k], [id |-> k])]
       /\ keyGen = n + 1
  /\ conns = [i \in Instances |-> IF i = "popup" THEN 1 ELSE 0]
  /\ reqs = <<>>
  /\ db = [i \in Instances |-> IF i = "popup" THEN Some(CurrentVersion) ELSE None]
  /\ now = 0
  /\ lastOp = NoOp
  /\ preStore = objectStore
  /\ session = NoSession
  /\ NoPopup

NextQuery ==
  \/ \E d \in 0..1 : GetActivitiesByDate("popup", d) /\ UNCHANGED aboveVars
  \/ \E d \in 0..1 : \E tags \in SUBSET QueryTags :
       GetActivitiesByDateAndTags("popup", d, tags) /\ UNCHANGED aboveVars

SpecQuery == InitQuery /\ [][NextQuery]_vars

(* ---------------------------------------------------- claims on SpecQuery *)
\* C22: getActivitiesByDateAndTags(d, T) with T not empty returns exactly
\* the stored records that start on day d and carry every tag of T (a record
\* without tags never), each once, ascending by start.
C22_ByDateAndTagsIsConjunctive ==
  ( /\ lastOp.op = "byDateAndTags"
    /\ lastOp.outcome = "ok"
    /\ lastOp.patch.tags # {} ) =>
    /\ ExactlyThe(The(lastOp.result), preStore,
         {id \in DOMAIN preStore :
            /\ DateOf(preStore[id].start) = lastOp.arg
            /\ preStore[id].tags # None
            /\ \A tag \in lastOp.patch.tags : tag \in The(preStore[id].tags)})
    /\ AscendingByStart(The(lastOp.result))

\* Two tags are asked for on a day that has a record with both, one with one
\* of them and one with no tags: the first alone is returned.
C22_Witness ==
  /\ lastOp.op = "byDateAndTags"
  /\ lastOp.outcome = "ok"
  /\ lastOp.patch.tags = QueryTags
  /\ Len(The(lastOp.result)) = 1
  /\ \E a, b \in DOMAIN preStore :
       /\ preStore[a].tags = None
       /\ preStore[b].tags = Some({"work"})
       /\ DateOf(preStore[a].start) = lastOp.arg
       /\ DateOf(preStore[b].start) = lastOp.arg

(* ------------------------------- the options page's statistics, SpecStats *)
\* The statistics are computed from times of day: in this part the clock
\* counts half minutes.
TicksPerMinute == 2
MinutesPerDay == 24 * 60
DayLength == TicksPerMinute * MinutesPerDay

\* getFullYear(), getMonth(), getDate(), toDateString(): the local calendar
\* day of an instant, as a day number.
LocalDay(t) == (t + utcOffset) \div DayLength

\* toISOString().split('T')[0]: the calendar day of an instant in UTC.
UtcDay(t) == t \div DayLength

\* getDay() of a calendar day: 0 is Sunday; day 0 is a Thursday.
Weekday(day) == (day + 4) % 7

\* setDate(getDate() - n) on a copy of the instant t.
DaysBefore(t, n) == t - n * DayLength

\* Mutant: Math.floor in the place of Math.round.
RoundsDown(n, d) == IF d > 0 THEN n \div d ELSE (0 - n) \div (0 - d)

\* Math.round(n / d), d # 0: the nearest integer, a half going up.
Round(n, d) ==
  IF d > 0 THEN (2 * n + d) \div (2 * d) ELSE (0 - 2 * n - d) \div (0 - 2 * d)

\* Math.floor((endTime.getTime() - startTime.getTime()) / (1000 * 60)), with
\* new Date() for a missing end.
DurationMinutes(a) ==
  ((IF a.end # None THEN The(a.end) ELSE now) - a.start) \div TicksPerMinute

RECURSIVE TotalMinutes(_)
\* The running sum of the durations of a list.
TotalMinutes(list) ==
  IF list = <<>> THEN 0 ELSE DurationMinutes(Head(list)) + TotalMinutes(Tail(list))

\* The set of `${a.year}-${a.month}-${a.day}` keys of a list.
DateKeys(list) == {list[n].date : n \in 1..Len(list)}

\* calculateStatsForActivities(activities)
CalculateStatsForActivities(list) ==
  LET totalTimeMinutes == TotalMinutes(list)
      activeDays == Cardinality(DateKeys(list))
  IN [totalActivities |-> Len(list),
      totalTimeMinutes |-> totalTimeMinutes,
      avgDailyMinutes |-> IF activeDays > 0 THEN Round(totalTimeMinutes, activeDays) ELSE 0,
      activeDays |-> activeDays]

\* Mutant: no previous value means no change.
PercentageChangeFromZeroIsZero(oldValue, newValue) ==
  IF oldValue = 0 THEN 0 ELSE Round((newValue - oldValue) * 100, oldValue)

\* calculatePercentageChange(oldValue, newValue)
CalculatePercentageChange(oldValue, newValue) ==
  IF oldValue = 0 THEN (IF newValue > 0 THEN 100 ELSE 0)
  ELSE Round((newValue - oldValue) * 100, oldValue)

Min(a, b) == IF a < b THEN a ELSE b
Max(a, b) == IF a > b THEN a ELSE b

\* The four factors of calculateProductivityScore(activities) for a list
\* that is not empty, each multiplied by `scale` so as to be an integer.
SubScores(list) ==
  LET n == Len(list)
      days == IF analyticsTimeRange # 0 THEN analyticsTimeRange ELSE 30
      scale == 2 * n * days
      activeDays == Cardinality(DateKeys(list))
      totalMinutes == TotalMinutes(list)
      taggedActivities ==
        Cardinality({k \in 1..n : list[k].tags # None /\ The(list[k].tags) # {}})
      uniqueActivities == Cardinality({list[k].activity : k \in 1..n})
  IN [scale |-> scale,
      consistency |-> Min(activeDays * 100 * 2 * n, 100 * scale),
      session |->
        IF totalMinutes >= 25 * n /\ totalMinutes <= 90 * n THEN 100 * scale
        ELSE IF totalMinutes > 90 * n
          THEN Max(50 * scale, (290 * n - totalMinutes) * days)
          ELSE totalMinutes * 4 * 2 * days,
      organization |-> taggedActivities * 100 * 2 * days,
      variety |-> Min(uniqueActivities * 10, 100) * scale]

\* calculateProductivityScore(activities): the factors weigh 0.3, 0.3, 0.2
\* and 0.2.
CalculateProductivityScore(list) ==
  IF list = <<>> THEN 0
  ELSE LET f == SubScores(list) IN
       Round(3 * f.consistency + 3 * f.session + 2 * f.organization + 2 * f.variety,
             10 * f.scale)

\* getActivitiesForTimeRange() with the clock at t: all for 'all time',
\* else those that start at or after the cutoff.
ActivitiesForTimeRange(all, t) ==
  IF analyticsTimeRange = 0 THEN all
  ELSE SelectSeq(all, LAMBDA a : a.start >= DaysBefore(t, analyticsTimeRange))

\* The previous period of calculateEnhancedStatistics() with the clock at t.
PreviousActivities(all, t) ==
  LET periodDays == IF analyticsTimeRange # 0 THEN analyticsTimeRange ELSE 365 IN
  SelectSeq(all, LAMBDA a : /\ a.start >= DaysBefore(t, periodDays * 2)
                            /\ a.start < DaysBefore(t, periodDays))

\* generateDailyTimeData(activities): the days are named by their UTC date,
\* the activities by their own day fields.
GenerateDailyTimeData(list) ==
  LET days == IF analyticsTimeRange # 0 THEN analyticsTimeRange ELSE 30 IN
  [k \in 1..days |->
     LET dateKey == UtcDay(DaysBefore(now, days - k)) IN
     [date |-> dateKey,
      minutes |-> TotalMinutes(SelectSeq(list, LAMBDA a : a.date = dateKey))]]

\* generateWeeklyHeatmap(activities): `day` is the inner loop's counter.
GenerateWeeklyHeatmap(list) ==
  [k \in 1..28 |->
     LET week == (k - 1) \div 7
         day == (k - 1) % 7
         date == DaysBefore(now, week * 7 + day)
     IN [week |-> week, day |-> day,
         minutes |-> TotalMinutes(SelectSeq(list,
                       LAMBDA a : LocalDay(a.start) = LocalDay(date)))]]

\* Records in the store the statistics are computed from.
MaxStatRecords == 2
\* Ticks that pass between two readings of the clock in one handler.
MaxElapsed == 1
\* The values calculatePercentageChange is applied to on its own: 8 makes
\* changes that end in a half.
ChangeValues == {0, 1, 3, 8, 9}

\* The day the options page is open on, and its first instant in UTC.
Today == 800
Midnight == Today * DayLength

\* The clock when the page computes: half an hour after, and half an hour
\* before, midnight UTC.
StatNows == {Midnight + 30 * TicksPerMinute, Midnight + DayLength - 30 * TicksPerMinute}

\* Time zones: UTC, and two hours to either side.
StatOffsets == {0 - 120 * TicksPerMinute, 0, 120 * TicksPerMinute}

\* The values of the 'analyticsTimeRange' select: all time, a week, a month.
TimeRanges == {0, 7, DefaultTimeRange}

\* A record as the popup writes it: day fields of the local date of start.
StatActivity(name, start, minutes, tags) ==
  [activity |-> name, start |-> start,
   end |-> IF minutes = None THEN None ELSE Some(start + The(minutes)),
   tags |-> tags, date |-> LocalDay(start)]

\* What the store may hold: a tagged 27 minutes today; 200 minutes a week
\* ago at noon; 50 minutes more than a year ago; a record that ends 100
\* minutes before it starts; 25 minutes started a week before the earlier
\* reading of the clock, to the tick; one that has not ended.
StatRecords ==
  {StatActivity("a", Midnight + 5, Some(55), Some({"work"})),
   StatActivity("b", DaysBefore(Midnight + DayLength \div 2, 7), Some(400), None),
   StatActivity("a", DaysBefore(Midnight + 10, 400), Some(100), Some({})),
   StatActivity("a", Midnight + 30, Some(0 - 200), None),
   StatActivity("b", DaysBefore(Midnight + 30 * TicksPerMinute, 7), Some(51), None),
   StatActivity("a", Midnight + 20, None, None)}

\* The options page open over a store of the first build that holds any
\* records, in some time zone, at some time of day.
InitStats ==
  /\ dbVersion = LegacyVersion
  /\ objectStoreNames = {"activities"}
  /\ indexNames = IndexesOf("legacy")
  /\ utcOffset \in StatOffsets
  /\ now \in StatNows
  /\ \E n \in 0..MaxStatRecords :
       /\ \E rs \in [1..n -> StatRecords] :
            objectStore = [k \in 1..n |-> Merge(rs[k], [id |-> k])]
       /\ keyGen = n + 1
  /\ conns = [i \in Instances |-> 0]
  /\ reqs = <<>>
  /\ db = [i \in Instances |-> None]
  /\ lastOp = NoOp
  /\ preStore = objectStore
  /\ session = NoSession
  /\ currentActivity = None
  /\ activities = <<>>
  /\ editingActivityId = None
  /\ modalOpen = FALSE
  /\ trackBtnDisabled = FALSE
  /\ tasks = <<>>
  /\ msgs = 0
  /\ selectedDate = SelectedDate
  /\ selectedTags = {}
  /\ allTags = {}
  /\ analyticsTimeRange = DefaultTimeRange
  /\ responses = <<>>
  /\ updateInterval = None
  /\ intervals = {}
  /\ timeout = None
  /\ log = <<>>

\* The ids of the records of a list.
IdsOf(list) == {list[n].id : n \in 1..Len(list)}

\* onTimeRangeChange(): the analytics it starts read the field after their
\* first await.
OnTimeRangeChange(value) ==
  /\ analyticsTimeRange' = value
  /\ UNCHANGED <<persistVars, conns, reqs, db, now, lastOp, preStore, session,
                 currentActivity, activities, editingActivityId, modalOpen,
                 trackBtnDisabled, tasks, msgs, filterVars, utcOffset, serviceVars,
                 debounceVars>>

\* What a computation of the page leaves on display.
Computed(op, patch, result) ==
  /\ ObserveCall("options", op, analyticsTimeRange, patch, "ok", Some(result))
  /\ UNCHANGED <<persistVars, conns, reqs, db, now, aboveVars>>

\* calculateEnhancedStatistics() as far as its own `await
\* this.getAllActivities()`: getActivitiesForTimeRange() has returned the
\* current period, cut off by the time range it read after its read of the
\* store.
CalculateEnhancedStatistics ==
  /\ tasks = <<>>
  /\ tasks' = << [kind |-> "statistics", pc |-> "getAllActivities",
                  activities |-> ActivitiesForTimeRange(AllByStart(objectStore), now),
                  range |-> analyticsTimeRange] >>
  /\ UNCHANGED <<persistVars, conns, reqs, db, now, lastOp, preStore, session,
                 currentActivity, activities, editingActivityId, modalOpen,
                 trackBtnDisabled, msgs, filterVars, optionsVars, serviceVars,
                 debounceVars>>

\* The rest of calculateEnhancedStatistics(), `elapsed` ticks after the
\* cutoff was taken: periodDays and the `days` of the productivity score are
\* read from analyticsTimeRange now.
EnhancedStatisticsLoaded(elapsed) ==
  /\ tasks # <<>>
  /\ tasks[1].kind = "statistics"
  /\ LET allActivities == AllByStart(objectStore)
         current == tasks[1].activities
         previous == PreviousActivities(allActivities, now + elapsed)
         currentStats == CalculateStatsForActivities(current)
         previousStats == CalculateStatsForActivities(previous)
     IN ObserveCall("options", "enhancedStatistics", analyticsTimeRange,
          [elapsed |-> elapsed, cutoffRange |-> tasks[1].range,
           periodRange |-> analyticsTimeRange, scoreRange |-> analyticsTimeRange],
          "ok",
          Some([activities |-> current,
                previousActivities |-> previous,
                stats |-> currentStats,
                factors |-> IF current = <<>> THEN None ELSE Some(SubScores(current)),
                productivityScore |-> CalculateProductivityScore(current),
                trends |->
                  [activitiesChange |-> CalculatePercentageChange(previousStats.totalActivities,
                                                                  currentStats.totalActivities),
                   timeChange |-> CalculatePercentageChange(previousStats.totalTimeMinutes,
                                                            currentStats.totalTimeMinutes),
                   dailyChange |-> CalculatePercentageChange(previousStats.avgDailyMinutes,
                                                             currentStats.avgDailyMinutes),
                   daysChange |-> CalculatePercentageChange(previousStats.activeDays,
                                                            currentStats.activeDays)]]))
  /\ tasks' = <<>>
  /\ UNCHANGED <<persistVars, conns, reqs, db, now, session,
                 currentActivity, activities, editingActivityId, modalOpen,
                 trackBtnDisabled, msgs, filterVars, optionsVars, serviceVars,
                 debounceVars>>

\* generateAnalyticsData(), as far as the two series for the charts.
GenerateAnalyticsData ==
  LET list == ActivitiesForTimeRange(AllByStart(objectStore), now) IN
  Computed("analyticsData", NoPatch,
           [activities |-> list,
            dailyTime |-> GenerateDailyTimeData(list),
            weeklyHeatmap |-> GenerateWeeklyHeatmap(list)])

\* calculatePercentageChange applied to two values.
PercentageChange(oldValue, newValue) ==
  Computed("percentageChange", [oldValue |-> oldValue, newValue |-> newValue],
           CalculatePercentageChange(oldValue, newValue))

NextStats ==
  \/ \E value \in TimeRanges : OnTimeRangeChange(value)
  \/ CalculateEnhancedStatistics
  \/ \E elapsed \in 0..MaxElapsed : EnhancedStatisticsLoaded(elapsed)
  \/ GenerateAnalyticsData
  \/ \E oldValue, newValue \in ChangeValues : PercentageChange(oldValue, newValue)

SpecStats == InitStats /\ [][NextStats]_vars

(* ---------------------------------------------------- claims on SpecStats *)
\* C24: for p >= 0 and c >= 0, calculatePercentageChange(p, c) is 0 when
\* both are 0, 100 when p = 0 < c, and otherwise the integer nearest to
\* (c - p) / p * 100, a half going up.
C24_PercentageChange ==
  lastOp.op = "percentageChange" =>
    LET p == lastOp.patch.oldValue
        c == lastOp.patch.newValue
        r == The(lastOp.result)
    IN /\ (p = 0 /\ c = 0) => r = 0
       /\ (p = 0 /\ c > 0) => r = 100
       /\ p > 0 => /\ 2 * r * p <= 2 * (c - p) * 100 + p
                   /\ 2 * (c - p) * 100 + p < 2 * (r + 1) * p

\* A fall from 8 to 3, by 62.5 per cent, has been computed.
C24_Witness ==
  /\ lastOp.op = "percentageChange"
  /\ lastOp.patch = [oldValue |-> 8, newValue |-> 3]
  /\ lastOp.result = Some(0 - 62)

\* C25: for every setting of the time range, 0 included, the previous
\* period of the trends shares no activity with the current one, and for a
\* range of w days it is the w days that end where the current period starts.
C25_PreviousPeriodPrecedes ==
  lastOp.op = "enhancedStatistics" =>
    LET r == The(lastOp.result)
        w == lastOp.arg
    IN /\ IdsOf(r.activities) \cap IdsOf(r.previousActivities) = {}
       /\ w # 0 =>
            IdsOf(r.previousActivities) =
              {id \in DOMAIN preStore :
                 /\ preStore[id].start >= DaysBefore(now, 2 * w)
                 /\ preStore[id].start < DaysBefore(now, w)}

\* C26: each of the four factors of the productivity score lies in [0, 100]
\* and the score is an integer in 0..100, 0 for no activities.
C26_ScoresWithinRange ==
  lastOp.op = "enhancedStatistics" =>
    LET r == The(lastOp.result) IN
    /\ r.productivityScore \in 0..100
    /\ r.activities = <<>> => r.productivityScore = 0
    /\ r.factors # None =>
         LET f == The(r.factors) IN
         \A x \in {f.consistency, f.session, f.organization, f.variety} :
           0 <= x /\ x <= 100 * f.scale

RECURSIVE MinutesUpTo(_, _)
\* The durations of the first n activities of a list, added up.
MinutesUpTo(list, n) ==
  IF n = 0 THEN 0 ELSE MinutesUpTo(list, n - 1) + DurationMinutes(list[n])

\* C27: the statistics of a list of activities are its length, the sum of
\* the whole-minute durations, the number of distinct days among the day
\* fields, and the minutes per such day to the nearest integer, 0 without a
\* day.
C27_StatsOfActivities ==
  lastOp.op = "enhancedStatistics" =>
    LET list == The(lastOp.result).activities
        st == The(lastOp.result).stats
        days == Cardinality({list[n].date : n \in 1..Len(list)})
    IN /\ st.totalActivities = Len(list)
       /\ st.totalTimeMinutes = MinutesUpTo(list, Len(list))
       /\ st.activeDays = days
       /\ days = 0 => st.avgDailyMinutes = 0
       /\ days > 0 =>
            /\ 2 * st.avgDailyMinutes * days <= 2 * st.totalTimeMinutes + days
            /\ 2 * st.totalTimeMinutes + days < 2 * (st.avgDailyMinutes + 1) * days

\* Two activities on two days whose minutes add up to an odd number: the
\* average has been rounded up.
C27_Witness ==
  /\ lastOp.op = "enhancedStatistics"
  /\ LET st == The(lastOp.result).stats IN
     /\ st.totalActivities = 2
     /\ st.activeDays = 2
     /\ st.totalTimeMinutes > 0
     /\ 2 * st.avgDailyMinutes = st.totalTimeMinutes + 1

\* C28: the daily series has one entry for each of the last windowDays local
\* calendar days up to today, in ascending order, each with the minutes of
\* the window's activities whose day fields name that day.
C28_DailySeriesEndsToday ==
  lastOp.op = "analyticsData" =>
    LET r == The(lastOp.result)
        days == IF lastOp.arg # 0 THEN lastOp.arg ELSE DefaultTimeRange
    IN /\ Len(r.dailyTime) = days
       /\ \A k \in 1..days :
            /\ r.dailyTime[k].date = LocalDay(now) - (days - k)
            /\ r.dailyTime[k].minutes =
                 TotalMinutes(SelectSeq(r.activities,
                                        LAMBDA a : a.date = LocalDay(now) - (days - k)))

\* C29: every entry of the heatmap carries as `day` the day of the week of
\* the calendar day whose minutes it sums, and each of the last 28 days is
\* summed by one entry.
C29_HeatmapDayIsWeekday ==
  lastOp.op = "analyticsData" =>
    LET r == The(lastOp.result) IN
    /\ Len(r.weeklyHeatmap) = 28
    /\ \A k \in 1..28 :
         LET entry == r.weeklyHeatmap[k]
             day == LocalDay(now) - (k - 1)
         IN /\ entry.minutes =
                 TotalMinutes(SelectSeq(r.activities, LAMBDA a : LocalDay(a.start) = day))
            /\ entry.day = Weekday(day)


\* C40: within one run of calculateEnhancedStatistics, the cut-off of the
\* current period, the bounds of the previous period and the consistency
\* denominator of the productivity score come from one value of
\* analyticsTimeRange.
C40_OneTimeRangePerRun ==
  lastOp.op = "enhancedStatistics" =>
    /\ lastOp.patch.cutoffRange = lastOp.patch.periodRange
    /\ lastOp.patch.periodRange = lastOp.patch.scoreRange

(* --------------------------------------- the shared utilities, SpecFormat *)
\* Mutant: the hours are written also when they are 0.
FormatDurationAlwaysHours(startTime, endTime) ==
  LET diffMinutes == (endTime - startTime) \div TicksPerMinute
  IN [hours |-> Some(diffMinutes \div 60), minutes |-> diffMinutes % 60]

\* formatDuration(startTime, endTime): `${hours}h ${minutes}m` is the record
\* with hours, `${minutes}m` the record without.
FormatDuration(startTime, endTime) ==
  LET diffMinutes == (endTime - startTime) \div TicksPerMinute
      hours == diffMinutes \div 60
      minutes == diffMinutes % 60
  IN IF hours > 0 THEN [hours |-> Some(hours), minutes |-> minutes]
     ELSE [hours |-> None, minutes |-> minutes]

\* Durations up to two hours and some minutes, from MaxFormatStart + 1 starts.
FormatTicks == 0..((2 * 60 + MaxFormatMinutes) * TicksPerMinute)

\* A call of formatDuration by the popup, with startTime <= endTime.
FormatDurationCall(startTime, endTime) ==
  /\ ObserveCall("popup", "formatDuration", startTime, [end |-> endTime], "ok",
                 Some(FormatDuration(startTime, endTime)))
  /\ UNCHANGED <<persistVars, conns, reqs, db, now, aboveVars>>

NextFormat ==
  \E startTime \in 0..MaxFormatStart : \E ticks \in FormatTicks :
    FormatDurationCall(startTime, startTime + ticks)

SpecFormat == InitPopup /\ [][NextFormat]_vars

\* C33: for start <= end and m = floor((end - start) / one minute),
\* formatDuration returns 'Hh Mm' with H = floor(m / 60) and M = m mod 60
\* when m >= 60, and 'Mm' with M = m when m < 60; so H * 60 + M = m and
\* 0 <= M <= 59.
C33_FormatDuration ==
  lastOp.op = "formatDuration" =>
    LET m == (lastOp.patch.end - lastOp.arg) \div TicksPerMinute
        text == The(lastOp.result)
        H == IF text.hours = None THEN 0 ELSE The(text.hours)
        M == text.minutes
    IN /\ (text.hours # None) <=> (m >= 60)
       /\ text.hours # None => (H = m \div 60 /\ M = m % 60)
       /\ text.hours = None => M = m
       /\ H * 60 + M = m
       /\ 0 <= M /\ M <= 59

\* '2h 0m' has been returned for a span that ends inside its last minute.
C33_Witness ==
  /\ lastOp.op = "formatDuration"
  /\ lastOp.result = Some([hours |-> Some(2), minutes |-> 0])
  /\ lastOp.patch.end - lastOp.arg > 2 * 60 * TicksPerMinute


(* -------------------------------------- the debounced function, SpecDebounce *)
DebounceArgs == {"first", "second"}

Call(at, args) == [kind |-> "call", at |-> at, args |-> args]
Invocation(at, args) == [kind |-> "invocation", at |-> at, args |-> args]

\* Mutant: a pending timer is left to run and the new call is dropped.
SetTimeoutKeepsPending(pending, at, args) ==
  IF pending # None THEN pending ELSE Some([due |-> at + DebounceWait, args |-> args])

\* clearTimeout(timeout); timeout = setTimeout(() => func(...args), wait)
SetTimeout(pending, at, args) == Some([due |-> at + DebounceWait, args |-> args])

\* A timer that is due runs before anything that happens later: the clock
\* does not pass it and no later call is handled ahead of it.
NoneDue == IF timeout = None THEN TRUE ELSE now < The(timeout).due

DebounceIdle ==
  UNCHANGED <<persistVars, conns, reqs, db, lastOp, preStore, session, currentActivity,
              activities, editingActivityId, modalOpen, trackBtnDisabled, tasks, msgs,
              filterVars, optionsVars, serviceVars>>

\* A call of the function debounce(func, wait) returned.
DebouncedCall(args) ==
  /\ Cardinality({n \in 1..Len(log) : log[n].kind = "call"}) < MaxCalls
  /\ NoneDue
  /\ timeout' = SetTimeout(timeout, now, args)
  /\ log' = Append(log, Call(now, args))
  /\ UNCHANGED now
  /\ DebounceIdle

\* The timer's callback: func(...args).
TimerFires ==
  /\ timeout # None
  /\ now >= The(timeout).due
  /\ log' = Append(log, Invocation(now, The(timeout).args))
  /\ timeout' = None
  /\ UNCHANGED now
  /\ DebounceIdle

DebounceTick ==
  /\ now < MaxDebounceTime
  /\ NoneDue
  /\ now' = now + 1
  /\ UNCHANGED debounceVars
  /\ DebounceIdle

NextDebounce ==
  \/ \E args \in DebounceArgs : DebouncedCall(args)
  \/ TimerFires
  \/ DebounceTick

SpecDebounce == InitPopup /\ [][NextDebounce]_vars

\* The positions of the calls in the log, and the call before a position.
CallsIn(events) == {n \in 1..Len(events) : events[n].kind = "call"}
LastCallBefore(events, p) ==
  CHOOSE q \in CallsIn(events) : q < p /\ \A r \in CallsIn(events) : r < p => r <= q
InvocationsBetween(events, q, p) ==
  Cardinality({n \in q + 1 .. p - 1 : events[n].kind = "invocation"})

\* C34: func is never invoked earlier than the wait after the most recent
\* call; calls less than the wait apart cause no invocation between them,
\* calls further apart exactly one, as does the last call once the wait is
\* over; and each invocation receives the arguments of the call before it.
C34_Debounce ==
  /\ \A p \in 1..Len(log) : log[p].kind = "invocation" =>
        /\ \E q \in CallsIn(log) : q < p
        /\ LET call == log[LastCallBefore(log, p)]
           IN /\ log[p].at >= call.at + DebounceWait
              /\ log[p].args = call.args
  /\ \A p \in CallsIn(log) : (\E q \in CallsIn(log) : q < p) =>
        LET q == LastCallBefore(log, p)
        IN InvocationsBetween(log, q, p)
             = IF log[p].at - log[q].at < DebounceWait THEN 0 ELSE 1
  /\ \A q \in CallsIn(log) : (\A r \in CallsIn(log) : r <= q) =>
        /\ InvocationsBetween(log, q, Len(log) + 1) <= 1
        /\ now > log[q].at + DebounceWait => InvocationsBetween(log, q, Len(log) + 1) = 1

\* Two calls less than the wait apart have been followed by one invocation,
\* with the arguments of the second, and a third call has come after it.
C34_Witness ==
  /\ Len(log) = 4
  /\ log[1] = Call(0, "first")
  /\ log[2].kind = "call" /\ log[2].args = "second" /\ log[2].at = DebounceWait - 1
  /\ log[3] = Invocation(log[2].at + DebounceWait, "second")
  /\ log[4].kind = "call"


(* ------------------------------- the background service's timer, SpecService *)
\* The service worker has been loaded and no init() has run yet. The database
\* exists, at this build's version with the popup connected to it, or at the
\* version of a later build.
InitService ==
  /\ dbVersion \in {CurrentVersion, CurrentVersion + 1}
  /\ objectStoreNames = {"activities"}
  /\ indexNames = {"date", "activity", "start", "tags"}
  /\ objectStore = EmptyStore
  /\ keyGen = 1
  /\ conns = [i \in Instances |-> IF i = "popup" /\ dbVersion = CurrentVersion THEN 1 ELSE 0]
  /\ reqs = <<>>
  /\ db = [i \in Instances |->
             IF i = "popup" /\ dbVersion = CurrentVersion THEN Some(CurrentVersion) ELSE None]
  /\ now = 0
  /\ lastOp = NoOp
  /\ preStore = EmptyStore
  /\ session = NoSession
  /\ NoPopup

ServiceIdle ==
  UNCHANGED <<session, currentActivity, activities, editingActivityId, modalOpen,
              trackBtnDisabled, tasks, msgs, filterVars, optionsVars, responses,
              debounceVars>>

\* setInterval hands out a handle no earlier timer has had.
NewTimer == conns["background"] + 1

\* BackgroundService.init(), called at load, from onStartup and from
\* onInstalled: db.init() on a database that needs no upgrade, then
\* checkCurrentActivity() and startPeriodicUpdates(). A rejected db.init() is
\* caught and starts no timer.
ServiceInit ==
  /\ conns["background"] < MaxServiceInits
  /\ IF dbVersion > CurrentVersion
       THEN /\ Observe("background", "init", "versionError", None)
            /\ UNCHANGED <<conns, db, updateInterval, intervals>>
       ELSE /\ conns' = [conns EXCEPT !["background"] = @ + 1]
            /\ db' = [db EXCEPT !["background"] = Some(CurrentVersion)]
            /\ Observe("background", "init", "ok", CurrentOf(objectStore))
            /\ updateInterval' = Some(NewTimer)
            /\ intervals' = intervals \cup {NewTimer}
  /\ UNCHANGED <<persistVars, reqs, now>>
  /\ ServiceIdle

\* The callback of a timer of startPeriodicUpdates: checkCurrentActivity().
IntervalFires(timer) ==
  /\ timer \in intervals
  /\ GetCurrentActivity("background")
  /\ UNCHANGED <<updateInterval, intervals>>
  /\ ServiceIdle

\* BackgroundService.cleanup(), from onSuspend.
Cleanup ==
  /\ IF updateInterval # None
       THEN /\ intervals' = intervals \ {The(updateInterval)}
            /\ updateInterval' = None
       ELSE UNCHANGED <<updateInterval, intervals>>
  /\ Observe("background", "cleanup", "ok", None)
  /\ UNCHANGED <<persistVars, conns, reqs, db, now>>
  /\ ServiceIdle

\* The popup starts an activity.
ServiceAdd ==
  /\ keyGen <= MaxRecords
  /\ \E a \in StoreInputs : AddActivity("popup", a)
  /\ UNCHANGED <<updateInterval, intervals>>
  /\ ServiceIdle

NextService ==
  \/ ServiceInit
  \/ \E timer \in 1..MaxServiceInits : IntervalFires(timer)
  \/ Cleanup
  \/ ServiceAdd

SpecService == InitService /\ [][NextService]_vars

\* C38: at most one periodic badge-update timer of the background service is
\* active at any time, however often init() runs, and none is once cleanup()
\* has run.
C38_AtMostOneInterval ==
  /\ Cardinality(intervals) <= 1
  /\ lastOp.op = "cleanup" => intervals = {}


(* ------------------------- init() beside an open older connection, SpecLive *)
\* A version-1 database with up to MaxRecords records of the first build; the
\* options page is open and holds the connection of a getAllActivities()
\* call, which it never closes.
InitLive ==
  /\ dbVersion = OptionsVersion
  /\ objectStoreNames = {"activities"}
  /\ indexNames = {"date", "activity", "start"}
  /\ \E n \in 0..MaxRecords :
       /\ objectStore = [k \in 1..n |-> Merge(Activity("a", 0, None, None), [id |-> k])]
       /\ keyGen = n + 1
  /\ conns = [i \in Instances |-> IF i = "options" THEN 1 ELSE 0]
  /\ reqs = <<>>
  /\ db = [i \in Instances |-> None]
  /\ now = 0
  /\ lastOp = NoOp
  /\ preStore = objectStore
  /\ session = NoSession
  /\ NoPopup

\* The steps the platform and the handlers of init() take by themselves.
Settling ==
  \E k \in 1..Len(reqs) :
    \/ OpenProcess(k)
    \/ OnUpgradeNeeded(k)
    \/ CursorStep(k)
    \/ CommitUpgrade(k)
    \/ OnSuccess(k)
    \/ OnError(k)

\* init() calls of the popup and the background service of the current build;
\* an upgrade may fail; the user may close the options page.
NextLive ==
  \/ \E i \in {"popup", "background"} : InitCall(i)
  \/ Settling
  \/ \E k \in 1..Len(reqs) : AbortUpgrade(k)
  \/ CloseContext("options")

\* Events that are due are delivered; nothing makes the user close a page.
SpecLive == InitLive /\ [][NextLive]_vars /\ WF_vars(Settling)

\* C37: every init() call eventually settles, resolved or rejected, also
\* while another context keeps a connection at an older schema version open.
C37_InitSettles ==
  \A k \in 1..MaxRequests :
    (Len(reqs) >= k) ~> (Len(reqs) >= k /\ reqs[k].phase \in {"resolved", "rejected"})

====
